---- MODULE Spec2Model ----
(***************************************************************************)
(* Model of the asynchronous generation pipeline of AxelPhotoBot:          *)
(*   - the token ledger (bot/services/balance.py, UserRepository)          *)
(*   - the submission handler (bot/handlers/generate.py)                   *)
(*   - the RQ job queue and the worker (bot/tasks/generation.py)           *)
(*   - the task rows (bot/db/repositories.py, bot/db/models.py)            *)
(* Every "await" that touches the database or an external service is a     *)
(* separate step, so that handlers and workers interleave as the event     *)
(* loop and separate worker processes let them.                            *)
(***************************************************************************)
EXTENDS Integers, FiniteSets, Sequences, TLC

\* ---------------------------------------------------------------- bounds
MaxTasks == 1
MaxRedeliver == 1
MaxLedgerOps == 3
MaxTime == 40
MaxGifts == 2
MaxDeliveries == 3
MaxPrompts == 1
MaxFaults == 1

\* ------------------------------------------------------ program constants
MAX_RETRIES == 3
RetryMax == 3
\* Retry(max=MAX_RETRIES, interval=[10, 30, 60]): the waits in seconds
RetryIntervals == <<10, 30, 60>>

Users == {1, 2}
\* the user ids that ledger operations are called with: 3 has no row
UserIds == {1, 2, 3}
TaskIds == 1..MaxTasks
Workers == {"w1", "w2"}
Handlers == {"h1"}
Sessions == {"s1", "s2"}

\* config.initial_tokens: the balance of a new user
initial_tokens == 10

\* the qualities that requests are submitted with
Requested == {"medium", "high"}
Qualities == {"low", "medium", "high"}
\* the amounts ledger operations are called with
Amounts == {5, 20}

GPT_TOKEN_COSTS == [q \in Qualities |->
    CASE q = "low" -> 2
      [] q = "medium" -> 5
      [] q = "high" -> 20]

SeedreamQualities == {"2k", "4k"}

SEEDREAM_TOKEN_COSTS == [q \in SeedreamQualities |->
    CASE q = "2k" -> 5
      [] q = "4k" -> 5]

\* {**GPT_TOKEN_COSTS, **SEEDREAM_TOKEN_COSTS}
USER_TOKEN_COSTS == [q \in Qualities \cup SeedreamQualities |->
    IF q \in SeedreamQualities THEN SEEDREAM_TOKEN_COSTS[q] ELSE GPT_TOKEN_COSTS[q]]

\* the qualities, sizes, models and numbers of source images that the
\* pricing functions are called with; the model "None" is no model
PricedQualities == Qualities \cup SeedreamQualities \cup {"other"}
Sizes == {"1024x1024", "1024x1536", "1536x1024"}
Models == {"None", "gpt-image-1", "gpt-image-1.5", "seedream-4-5"}
MaxImages == 10

\* model is not None and model.startswith("seedream")
is_seedream_model(model) == model \in {"seedream-4-5"}

\* SEEDREAM_TOKEN_COSTS.get(quality, 5) for a SeeDream model,
\* GPT_TOKEN_COSTS.get(quality, 5) otherwise; the size is not used
estimate_image_tokens(quality, size, model) ==
    IF is_seedream_model(model)
    THEN IF quality \in DOMAIN SEEDREAM_TOKEN_COSTS
         THEN SEEDREAM_TOKEN_COSTS[quality] ELSE 5
    ELSE IF quality \in DOMAIN GPT_TOKEN_COSTS
         THEN GPT_TOKEN_COSTS[quality] ELSE 5

\* the surcharge starting one image late
calculate_extra_images_cost_late(images_count) ==
    IF images_count <= 4 THEN 0
    ELSE IF images_count <= 7 THEN 1
    ELSE 2

calculate_extra_images_cost(images_count) ==
    IF images_count <= 3 THEN 0
    ELSE IF images_count <= 6 THEN 1
    ELSE 2

\* the total without the surcharge
calculate_total_cost_base_only(quality, images_count, model) ==
    estimate_image_tokens(quality, "1024x1024", model)

calculate_total_cost(quality, images_count, model) ==
    estimate_image_tokens(quality, "1024x1024", model)
        + calculate_extra_images_cost(images_count)

VARIABLES
    tokens,     \* users.tokens, per user id
    tasks,      \* generation_tasks rows, per task id
    queue,      \* jobs waiting in the RQ queue
    redelivered,\* number of duplicate deliveries made by the broker
    hpc, hloc, herr,            \* submission handlers: position, locals, last error
    wpc, wjob, wtask, wseen,    \* workers: position, job, ORM object, status seen at load
    wread, wkind, wnext,        \* workers: balance read by refund, failure kind, continuation
    log,        \* per task: what has been done for it so far
    lpc, lloc, lerr,            \* ledger sessions: position, locals, last error
    deducted, refunded, credited, nops, \* per user sums of the ledger operations that succeeded
    now,        \* the clock of the broker, in seconds
    call,       \* the last call of a pure function: its name, arguments and result
    settings,   \* users.selected_model, image_quality, image_size, per user id
    subscription,   \* config.subscription_required and the Redis key of the same name
    apc, aloc,  \* the /togglesub handler: position, value read
    gifts,      \* gifts rows, per gift id
    spc, sloc,  \* the /start handler: position, locals
    payments,   \* the payments row of one purchase and its state at YooKassa
    ppc, ploc,  \* payment handlers: position, locals
    fsm,        \* the FSM state and data of the user's dialogue
    cpc, cloc,  \* callback handlers of the dialogue: position, locals
    rows,       \* the generation_tasks rows created by the dialogue
    threshold,  \* config.high_cost_threshold
    prompts,    \* number of prompts that the dialogue has accepted
    faults      \* number of database failures so far

vars == <<tokens, tasks, queue, redelivered, hpc, hloc, herr,
          wpc, wjob, wtask, wseen, wread, wkind, wnext, log,
          lpc, lloc, lerr, deducted, refunded, credited, nops,
          now, call, settings, subscription, apc, aloc,
          gifts, spc, sloc, payments, ppc, ploc, fsm, cpc, cloc, rows, threshold, prompts, faults>>

yvars == <<gifts, spc, sloc, payments, ppc, ploc, fsm, cpc, cloc, rows, threshold, prompts, faults>>

xvars == <<now, call, settings, subscription, apc, aloc, yvars>>

hvars == <<hpc, hloc, herr>>
wvars == <<wpc, wjob, wtask, wseen, wread, wkind, wnext>>
lvars == <<lpc, lloc, lerr, deducted, refunded, credited, nops>>

\* ------------------------------------------------------------ task rows
NoTask == [user_id |-> 0, tokens_spent |-> 0, status |-> "none",
           retry_count |-> 0, result_file_id |-> FALSE, error_message |-> "null"]

NoJob == [task |-> 0, retries_left |-> 0, copy |-> 0, due |-> 0]

NoFunction == [fn |-> "none", args |-> <<>>, result |-> <<>>]

\* the column defaults of users.selected_model, image_quality, image_size
DefaultSettings ==
    [selected_model |-> "gpt-image-1.5", image_quality |-> "medium",
     image_size |-> "1024x1024"]

NoError == [required |-> 0, available |-> 0]

GiftIds == 1..MaxGifts

\* the user who sends /start for the first time: no users row yet
NewUser == 3

NoGift == [status |-> "pending", tokens_amount |-> 0, recipient_username |-> "other"]

NoStart == [username |-> "none", user_id |-> 0, pending_gifts |-> {},
            total_gift_tokens |-> 0]

Payers == {"p1", "p2"}

NoPayment == [user_id |-> 1, tokens_amount |-> 0, status |-> "pending",
              remote |-> "pending", deliveries |-> 0]

NoPay == [kind |-> "none", old_status |-> "none", status |-> "none", read |-> 0]

Callbacks == {"c1", "c2"}

NoDialogue == [state |-> "none", kind |-> "none", image_quality |-> "none",
               image_size |-> "none", model |-> "none", images_count |-> 0,
               expensive_confirmed |-> FALSE]

NoConfirm == [data |-> NoDialogue, cost |-> 0, read |-> 0, model |-> "none", task |-> 0]

\* the user of the dialogue and the balance at its start: the initial
\* tokens and a purchase of 20
DialogUser == 1
PaidBalance == initial_tokens + 20

\* the models that model_keyboard offers: the button of gpt-image-1 is
\* disabled
OfferedModels == {"gpt-image-1.5", "seedream-4-5"}

\* the values of config.high_cost_threshold that are considered
Thresholds == {5, 20}

NoRequest == [user_id |-> 0, cost |-> 0, read |-> 0, task |-> 0]

NoCall == [op |-> "none", user_id |-> 0, amount |-> 0, read |-> 0]

NoLog == [calls |-> 0, refunds |-> 0, sent |-> 0, notif_mod |-> 0,
          notif_fail |-> 0, fails |-> 0]

\* TaskRepository.create: a new row in status pending
NewTask(user_id, tokens_spent) ==
    [user_id |-> user_id, tokens_spent |-> tokens_spent, status |-> "pending",
     retry_count |-> 0, result_file_id |-> FALSE, error_message |-> "null"]

\* update_status ignoring increment_retry
Assign_no_increment(obj, status, file_id, error_message, increment_retry) ==
    [obj EXCEPT
        !.status = status,
        !.result_file_id = IF file_id THEN TRUE ELSE @,
        !.error_message = IF error_message # "null" THEN error_message ELSE @]

\* The assignments of TaskRepository.update_status on the session's object
Assign(obj, status, file_id, error_message, increment_retry) ==
    [obj EXCEPT
        !.status = status,
        !.result_file_id = IF file_id THEN TRUE ELSE @,
        !.error_message = IF error_message # "null" THEN error_message ELSE @,
        !.retry_count = IF increment_retry THEN @ + 1 ELSE @]

\* The UPDATE that the commit flushes: only the attributes whose value
\* differs from the one the session loaded are written to the row.
Flush(row, old, new) ==
    [f \in DOMAIN row |-> IF new[f] # old[f] THEN new[f] ELSE row[f]]

\* update_status incrementing the retry count on every call
update_status_incrementing(row, obj, status, file_id, error_message, increment_retry) ==
    Flush(row, obj, Assign(obj, status, file_id, error_message, TRUE))

\* TaskRepository.update_status: assign, commit
update_status(row, obj, status, file_id, error_message, increment_retry) ==
    Flush(row, obj, Assign(obj, status, file_id, error_message, increment_retry))

\* ---------------------------------------------------------------- ledger
\* deduct_tokens without its balance check
Insufficient_unchecked(read, amount) == FALSE

\* BalanceService.deduct_tokens: the check made on the value that was read
Insufficient(read, amount) == read < amount

\* the error built with its two arguments in the wrong order
InsufficientBalanceError_swapped(required, available) ==
    [required |-> available, available |-> required]

InsufficientBalanceError(required, available) ==
    [required |-> required, available |-> available]

DeductValue(read, amount) == read - amount

\* a refund that overwrites the balance instead of adding to it
RefundValue_overwrite(read, amount) == amount

RefundValue(read, amount) == read + amount

\* a credit that sets the balance to the amount
CreditValue_absolute(read, delta) == delta

\* UserRepository.update_tokens: user.tokens += tokens_delta
CreditValue(read, delta) == read + delta

\* ------------------------------------------------------------------ Init
BaseInit ==
    /\ tasks = [t \in TaskIds |-> NoTask]
    /\ queue = {}
    /\ redelivered = 0
    /\ hpc = [h \in Handlers |-> "idle"]
    /\ hloc = [h \in Handlers |-> NoRequest]
    /\ herr = [h \in Handlers |-> NoError]
    /\ wpc = [w \in Workers |-> "idle"]
    /\ wjob = [w \in Workers |-> NoJob]
    /\ wtask = [w \in Workers |-> NoTask]
    /\ wseen = [w \in Workers |-> "none"]
    /\ wread = [w \in Workers |-> 0]
    /\ wkind = [w \in Workers |-> "none"]
    /\ wnext = [w \in Workers |-> "idle"]
    /\ log = [t \in TaskIds |-> NoLog]
    /\ lpc = [s \in Sessions |-> "idle"]
    /\ lloc = [s \in Sessions |-> NoCall]
    /\ lerr = [s \in Sessions |-> NoError]
    /\ deducted = [u \in Users |-> 0]
    /\ refunded = [u \in Users |-> 0]
    /\ credited = [u \in Users |-> 0]
    /\ nops = 0
    /\ now = 0
    /\ call = NoFunction
    /\ apc = "idle"
    /\ aloc = FALSE
    /\ spc = "idle"
    /\ sloc = NoStart
    /\ ppc = [p \in Payers |-> "idle"]
    /\ ploc = [p \in Payers |-> NoPay]
    /\ cpc = [c \in Callbacks |-> "idle"]
    /\ cloc = [c \in Callbacks |-> NoConfirm]
    /\ rows = <<>>
    /\ prompts = 0
    /\ faults = 0

\* no gifts, no purchase, no dialogue under way
NoExtras ==
    /\ gifts = [g \in GiftIds |-> NoGift]
    /\ payments = NoPayment
    /\ fsm = NoDialogue
    /\ threshold = 20

\* new users with the column defaults; the Redis key subscription_required
\* is not set
Init ==
    /\ BaseInit
    /\ NoExtras
    /\ tokens = [u \in Users |-> initial_tokens]
    /\ settings = [u \in Users |-> DefaultSettings]
    /\ subscription = [config |-> FALSE, stored |-> "none"]

\* ------------------------------------------------- submission handler
Created == {t \in TaskIds : tasks[t].status # "none"}

InFlight == {h \in Handlers : hpc[h] # "idle"}

\* confirm_generation, BalanceService.deduct_tokens up to the check: the
\* handler reads the user row; with too few tokens it raises, the handler
\* shows the error and returns before any task or job exists.
SubmitDeductRead(h, u, q) ==
    /\ hpc[h] = "idle"
    /\ LET cost == estimate_image_tokens(q, DefaultSettings.image_size,
                                          DefaultSettings.selected_model) IN
        /\ hloc' = [hloc EXCEPT ![h] =
                [user_id |-> u, cost |-> cost, read |-> tokens[u], task |-> 0]]
        /\ IF Insufficient(tokens[u], cost)
           THEN /\ herr' = [herr EXCEPT ![h] = InsufficientBalanceError(cost, tokens[u])]
                /\ hpc' = [hpc EXCEPT ![h] = "insufficient"]
           ELSE /\ Cardinality(Created) + Cardinality(InFlight) < MaxTasks
                /\ hpc' = [hpc EXCEPT ![h] = "deduct_write"]
                /\ UNCHANGED herr
    /\ UNCHANGED <<tokens, tasks, queue, redelivered, log>>
    /\ UNCHANGED wvars
    /\ UNCHANGED lvars
    /\ UNCHANGED xvars

\* except InsufficientBalanceError: the error text is shown with the
\* required and available amounts, the dialogue state is cleared, return
SubmitRejected(h) ==
    /\ hpc[h] = "insufficient"
    /\ hpc' = [hpc EXCEPT ![h] = "idle"]
    /\ herr' = [herr EXCEPT ![h] = NoError]
    /\ hloc' = [hloc EXCEPT ![h] = NoRequest]
    /\ UNCHANGED <<tokens, tasks, queue, redelivered, log>>
    /\ UNCHANGED wvars
    /\ UNCHANGED lvars
    /\ UNCHANGED xvars

\* deduct_tokens: user.tokens -= amount; commit
SubmitDeductWrite(h) ==
    /\ hpc[h] = "deduct_write"
    /\ tokens' = [tokens EXCEPT ![hloc[h].user_id] = DeductValue(hloc[h].read, hloc[h].cost)]
    /\ hpc' = [hpc EXCEPT ![h] = "create"]
    /\ UNCHANGED <<tasks, queue, redelivered, log, hloc, herr>>
    /\ UNCHANGED wvars
    /\ UNCHANGED lvars
    /\ UNCHANGED xvars

\* task_repo.create(..., tokens_spent=cost): the row gets the next id
SubmitCreate(h) ==
    /\ hpc[h] = "create"
    /\ LET t == Cardinality(Created) + 1 IN
        /\ tasks' = [tasks EXCEPT ![t] = NewTask(hloc[h].user_id, hloc[h].cost)]
        /\ hloc' = [hloc EXCEPT ![h].task = t]
    /\ hpc' = [hpc EXCEPT ![h] = "enqueue"]
    /\ UNCHANGED <<tokens, queue, redelivered, log, herr>>
    /\ UNCHANGED wvars
    /\ UNCHANGED lvars
    /\ UNCHANGED xvars

\* enqueue_generation_task(task.id) with Retry(max=3); a failure to enqueue
\* is logged and the handler goes on.
SubmitEnqueue(h, ok) ==
    /\ hpc[h] = "enqueue"
    /\ IF ok
       THEN /\ queue' = queue \cup
                    {[task |-> hloc[h].task, retries_left |-> RetryMax, copy |-> 0,
                      due |-> now]}
       ELSE UNCHANGED queue
    /\ UNCHANGED log
    /\ hpc' = [hpc EXCEPT ![h] = "idle"]
    /\ hloc' = [hloc EXCEPT ![h] = NoRequest]
    /\ UNCHANGED <<tokens, tasks, redelivered, herr>>
    /\ UNCHANGED wvars
    /\ UNCHANGED lvars
    /\ UNCHANGED xvars

\* ------------------------------------------------------------ the worker
Owner(w) == wtask[w].user_id

Task(w) == wjob[w].task

\* session.refresh(task) at the end of update_status: the session's object
\* takes the committed values of the row
Refresh(w) ==
    /\ wpc[w] = "refresh"
    /\ wtask' = [wtask EXCEPT ![w] = tasks[Task(w)]]
    /\ wpc' = [wpc EXCEPT ![w] = wnext[w]]
    /\ UNCHANGED <<tokens, tasks, queue, redelivered, log>>
    /\ UNCHANGED <<wjob, wseen, wread, wkind, wnext>>
    /\ UNCHANGED hvars
    /\ UNCHANGED lvars
    /\ UNCHANGED xvars

\* The worker takes a job from the queue and process_generation_task loads
\* the task row (task_repo.get_by_id); a missing row ends the job.
Consume(w, j) ==
    /\ wpc[w] = "idle"
    /\ j \in queue
    /\ queue' = queue \ {j}
    /\ IF tasks[j.task].status = "none"
       THEN UNCHANGED <<wpc, wjob, wtask, wseen>>
       ELSE /\ wpc' = [wpc EXCEPT ![w] = "loaded"]
            /\ wjob' = [wjob EXCEPT ![w] = j]
            /\ wtask' = [wtask EXCEPT ![w] = tasks[j.task]]
            /\ wseen' = [wseen EXCEPT ![w] = tasks[j.task].status]
    /\ UNCHANGED <<tokens, tasks, redelivered, log, wread, wkind, wnext>>
    /\ UNCHANGED hvars
    /\ UNCHANGED lvars
    /\ UNCHANGED xvars

\* task_repo.update_status(task_id, status="processing")
SetProcessing(w) ==
    /\ wpc[w] = "loaded"
    /\ tasks' = [tasks EXCEPT ![Task(w)] =
            update_status(@, wtask[w], "processing", FALSE, "null", FALSE)]
    /\ wpc' = [wpc EXCEPT ![w] = "refresh"]
    /\ wnext' = [wnext EXCEPT ![w] = "call"]
    /\ UNCHANGED <<tokens, queue, redelivered, log>>
    /\ UNCHANGED <<wjob, wtask, wseen, wread, wkind>>
    /\ UNCHANGED hvars
    /\ UNCHANGED lvars
    /\ UNCHANGED xvars

\* image_provider.generate / edit returns a result: success, a failure whose
\* message names moderation, or any other failure
Outcomes == {"success", "moderation", "transient"}

ProviderCall(w, outcome) ==
    /\ wpc[w] = "call"
    /\ log' = [log EXCEPT ![Task(w)].calls = @ + 1]
    /\ wpc' = [wpc EXCEPT ![w] =
            CASE outcome = "success" -> "send"
              [] outcome = "moderation" -> "moderation"
              [] outcome = "transient" -> "handle"]
    /\ UNCHANGED <<tokens, tasks, queue, redelivered>>
    /\ UNCHANGED <<wjob, wtask, wseen, wread, wkind, wnext>>
    /\ UNCHANGED hvars
    /\ UNCHANGED lvars
    /\ UNCHANGED xvars

\* the result of the delivery not tested
AfterSend_unchecked(file_id) == "mark_done"

\* if not file_id: raise GenerationError("Failed to send result to user")
AfterSend(file_id) == IF file_id THEN "mark_done" ELSE "handle"

\* _send_result_to_user returns the file id of the sent document, or None
\* (its own errors are logged, not raised); without a file id the attempt
\* raises GenerationError
SendResult(w, sent) ==
    /\ wpc[w] = "send"
    /\ log' = IF sent THEN [log EXCEPT ![Task(w)].sent = @ + 1] ELSE log
    /\ wkind' = IF sent THEN wkind ELSE [wkind EXCEPT ![w] = "delivery"]
    /\ wpc' = [wpc EXCEPT ![w] = AfterSend(sent)]
    /\ UNCHANGED <<tokens, tasks, queue, redelivered>>
    /\ UNCHANGED <<wjob, wtask, wseen, wread, wnext>>
    /\ UNCHANGED hvars
    /\ UNCHANGED lvars
    /\ UNCHANGED xvars

\* update_status(task_id, status="done", result_file_id=file_id, ...)
MarkDone(w) ==
    /\ wpc[w] = "mark_done"
    /\ tasks' = [tasks EXCEPT ![Task(w)] =
            update_status(@, wtask[w], "done", TRUE, "null", FALSE)]
    /\ wpc' = [wpc EXCEPT ![w] = "refresh"]
    /\ wnext' = [wnext EXCEPT ![w] = "return_true"]
    /\ UNCHANGED <<tokens, queue, redelivered, log>>
    /\ UNCHANGED <<wjob, wtask, wseen, wread, wkind>>
    /\ UNCHANGED hvars
    /\ UNCHANGED lvars
    /\ UNCHANGED xvars

\* except ModerationError: update_status(status="failed",
\* error_message="Content moderation"), no retry
MarkModerationFailed(w) ==
    /\ wpc[w] = "moderation"
    /\ tasks' = [tasks EXCEPT ![Task(w)] =
            update_status(@, wtask[w], "failed", FALSE, "moderation", FALSE)]
    /\ wpc' = [wpc EXCEPT ![w] = "refresh"]
    /\ wnext' = [wnext EXCEPT ![w] = "refund_read"]
    /\ wkind' = [wkind EXCEPT ![w] = "moderation"]
    /\ UNCHANGED <<tokens, queue, redelivered, log>>
    /\ UNCHANGED <<wjob, wtask, wseen, wread>>
    /\ UNCHANGED hvars
    /\ UNCHANGED lvars
    /\ UNCHANGED xvars

\* the ceiling test off by one
Exhausted_late(retry_count) == retry_count + 1 > MAX_RETRIES

\* current_retry >= MAX_RETRIES, on the retry count of the session's object
Exhausted(retry_count) == retry_count + 1 >= MAX_RETRIES

\* the handler returning after a failure that has retries left
AfterHandle_swallow(exhausted) == IF exhausted THEN "refund_read" ELSE "return_true"

\* after the status update of the handler: refund and notify on the last
\* retry, "raise" on any earlier one
AfterHandle(exhausted) == IF exhausted THEN "refund_read" ELSE "raise"

\* except Exception: the retry count is read from the session's object;
\* the last retry marks the task failed, any earlier one sets it back to
\* pending and re-raises for RQ
HandleError(w) ==
    /\ wpc[w] = "handle"
    /\ log' = [log EXCEPT ![Task(w)].fails = @ + 1]
    /\ IF Exhausted(wtask[w].retry_count)
       THEN /\ tasks' = [tasks EXCEPT ![Task(w)] =
                    update_status(@, wtask[w], "failed", FALSE, "error", TRUE)]
            /\ wkind' = [wkind EXCEPT ![w] = "failure"]
       ELSE /\ tasks' = [tasks EXCEPT ![Task(w)] =
                    update_status(@, wtask[w], "pending", FALSE, "error", TRUE)]
            /\ UNCHANGED wkind
    /\ wnext' = [wnext EXCEPT ![w] = AfterHandle(Exhausted(wtask[w].retry_count))]
    /\ wpc' = [wpc EXCEPT ![w] = "refresh"]
    /\ UNCHANGED <<tokens, queue, redelivered>>
    /\ UNCHANGED <<wjob, wtask, wseen, wread>>
    /\ UNCHANGED hvars
    /\ UNCHANGED lvars
    /\ UNCHANGED xvars

\* refund_task -> refund_tokens: the user row is read; without a row the
\* refund returns None, which the worker does not look at
RefundRead(w) ==
    /\ wpc[w] = "refund_read"
    /\ IF Owner(w) \in Users
       THEN /\ wread' = [wread EXCEPT ![w] = tokens[Owner(w)]]
            /\ wpc' = [wpc EXCEPT ![w] = "refund_write"]
       ELSE /\ wpc' = [wpc EXCEPT ![w] = "notify"]
            /\ UNCHANGED wread
    /\ UNCHANGED <<tokens, tasks, queue, redelivered, log>>
    /\ UNCHANGED <<wjob, wtask, wseen, wkind, wnext>>
    /\ UNCHANGED hvars
    /\ UNCHANGED lvars
    /\ UNCHANGED xvars

\* the refund computed again from the price table, at the lowest price
RefundAmount_recomputed(obj) == GPT_TOKEN_COSTS["low"]

\* refund_task: refund_tokens(task.user_id, task.tokens_spent)
RefundAmount(obj) == obj.tokens_spent

\* refund_tokens: user.tokens += amount; commit
RefundWrite(w) ==
    /\ wpc[w] = "refund_write"
    /\ tokens' = [tokens EXCEPT ![Owner(w)] = RefundValue(wread[w], RefundAmount(wtask[w]))]
    /\ log' = [log EXCEPT ![Task(w)].refunds = @ + 1]
    /\ wpc' = [wpc EXCEPT ![w] = "notify"]
    /\ UNCHANGED <<tasks, queue, redelivered>>
    /\ UNCHANGED <<wjob, wtask, wseen, wread, wkind, wnext>>
    /\ UNCHANGED hvars
    /\ UNCHANGED lvars
    /\ UNCHANGED xvars

\* the failure message sent whatever the kind of the failure
Notified_generic(l, kind) == [l EXCEPT !.notif_fail = @ + 1]

\* the moderation handler calls _send_moderation_notification, the
\* exhausted-retries branch calls _send_failure_notification
Notified(l, kind) ==
    IF kind = "moderation"
    THEN [l EXCEPT !.notif_mod = @ + 1]
    ELSE [l EXCEPT !.notif_fail = @ + 1]

\* _send_moderation_notification / _send_failure_notification, return False
Notify(w) ==
    /\ wpc[w] = "notify"
    /\ log' = [log EXCEPT ![Task(w)] = Notified(@, wkind[w])]
    /\ wpc' = [wpc EXCEPT ![w] = "idle"]
    /\ wjob' = [wjob EXCEPT ![w] = NoJob]
    /\ wtask' = [wtask EXCEPT ![w] = NoTask]
    /\ wseen' = [wseen EXCEPT ![w] = "none"]
    /\ wread' = [wread EXCEPT ![w] = 0]
    /\ wkind' = [wkind EXCEPT ![w] = "none"]
    /\ wnext' = [wnext EXCEPT ![w] = "idle"]
    /\ UNCHANGED <<tokens, tasks, queue, redelivered>>
    /\ UNCHANGED hvars
    /\ UNCHANGED lvars
    /\ UNCHANGED xvars

\* return True: the job is finished
ReturnTrue(w) ==
    /\ wpc[w] = "return_true"
    /\ wpc' = [wpc EXCEPT ![w] = "idle"]
    /\ wjob' = [wjob EXCEPT ![w] = NoJob]
    /\ wtask' = [wtask EXCEPT ![w] = NoTask]
    /\ wseen' = [wseen EXCEPT ![w] = "none"]
    /\ wnext' = [wnext EXCEPT ![w] = "idle"]
    /\ UNCHANGED <<tokens, tasks, queue, redelivered, log, wread, wkind>>
    /\ UNCHANGED hvars
    /\ UNCHANGED lvars
    /\ UNCHANGED xvars

\* every retry waiting for the first interval
RetryInterval_flat(retries_left) == RetryIntervals[1]

\* The wait that RQ takes from the intervals of the Retry object for a job
\* with retries_left retries: the entry at index max(len - retries_left, 0)
\* (counted from 0)
RetryInterval(retries_left) ==
    LET index == IF Len(RetryIntervals) - retries_left > 0
                 THEN Len(RetryIntervals) - retries_left ELSE 0
    IN RetryIntervals[index + 1]

\* raise: the job failed; Retry(max=3) schedules it again while it has
\* retries left, to be put back on the queue when its interval has passed
Raise(w) ==
    /\ wpc[w] = "raise"
    /\ queue' = IF wjob[w].retries_left > 0
                THEN queue \cup {[wjob[w] EXCEPT
                                    !.retries_left = @ - 1,
                                    !.due = now + RetryInterval(wjob[w].retries_left)]}
                ELSE queue
    /\ wpc' = [wpc EXCEPT ![w] = "idle"]
    /\ wjob' = [wjob EXCEPT ![w] = NoJob]
    /\ wtask' = [wtask EXCEPT ![w] = NoTask]
    /\ wseen' = [wseen EXCEPT ![w] = "none"]
    /\ wkind' = [wkind EXCEPT ![w] = "none"]
    /\ wnext' = [wnext EXCEPT ![w] = "idle"]
    /\ UNCHANGED <<tokens, tasks, redelivered, log, wread>>
    /\ UNCHANGED hvars
    /\ UNCHANGED lvars
    /\ UNCHANGED xvars

\* An await inside one of the two except blocks raises (the database is
\* unreachable for update_status or refund_task): the exception leaves
\* _process_generation_task_async, nothing is committed, and RQ sees a
\* failed job.
HandlerFault(w) ==
    /\ wpc[w] \in {"moderation", "handle", "refund_read"}
    /\ wpc' = [wpc EXCEPT ![w] = "raise"]
    /\ UNCHANGED <<tokens, tasks, queue, redelivered, log>>
    /\ UNCHANGED <<wjob, wtask, wseen, wread, wkind, wnext>>
    /\ UNCHANGED hvars
    /\ UNCHANGED lvars
    /\ UNCHANGED xvars

\* The broker delivers at least once: a job that a worker has started may
\* be put on the queue a second time while that worker still runs it.
Redeliver(w) ==
    /\ wpc[w] # "idle"
    /\ redelivered < MaxRedeliver
    /\ redelivered' = redelivered + 1
    /\ queue' = queue \cup {[wjob[w] EXCEPT !.copy = redelivered + 1]}
    /\ UNCHANGED <<tokens, tasks, log>>
    /\ UNCHANGED wvars
    /\ UNCHANGED hvars
    /\ UNCHANGED lvars
    /\ UNCHANGED xvars

\* -------------------------------------------------- ledger operations
\* The three mutators of users.tokens, each called in a session of its own:
\* BalanceService.deduct_tokens, BalanceService.refund_tokens and
\* UserRepository.update_tokens (a credit: callers pass a positive amount).
LedgerOps == {"deduct_tokens", "refund_tokens", "update_tokens"}

\* select(User).where(User.id == user_id): the session reads the row;
\* without a row (user is None) the operation is about to return None;
\* deduct_tokens raises InsufficientBalanceError on too small a balance
LedgerRead(s, op, u, amount) ==
    /\ lpc[s] = "idle"
    /\ nops < MaxLedgerOps
    /\ nops' = nops + 1
    /\ IF u \notin Users
       THEN /\ lloc' = [lloc EXCEPT ![s] =
                    [op |-> op, user_id |-> u, amount |-> amount, read |-> 0]]
            /\ lpc' = [lpc EXCEPT ![s] = "not_found"]
            /\ UNCHANGED lerr
       ELSE /\ lloc' = [lloc EXCEPT ![s] =
                    [op |-> op, user_id |-> u, amount |-> amount, read |-> tokens[u]]]
            /\ IF op = "deduct_tokens" /\ Insufficient(tokens[u], amount)
               THEN /\ lerr' = [lerr EXCEPT ![s] =
                            InsufficientBalanceError(amount, tokens[u])]
                    /\ lpc' = [lpc EXCEPT ![s] = "raised"]
               ELSE /\ lpc' = [lpc EXCEPT ![s] = "write"]
                    /\ UNCHANGED lerr
    /\ UNCHANGED <<tokens, tasks, queue, redelivered, log>>
    /\ UNCHANGED <<deducted, refunded, credited>>
    /\ UNCHANGED hvars
    /\ UNCHANGED wvars
    /\ UNCHANGED xvars

\* user.tokens -= amount / user.tokens += amount; commit: the value computed
\* from the row as it was read is written
LedgerWrite(s) ==
    /\ lpc[s] = "write"
    /\ LET u == lloc[s].user_id
           a == lloc[s].amount
       IN
        /\ tokens' = [tokens EXCEPT ![u] =
                CASE lloc[s].op = "deduct_tokens" -> DeductValue(lloc[s].read, a)
                  [] lloc[s].op = "refund_tokens" -> RefundValue(lloc[s].read, a)
                  [] lloc[s].op = "update_tokens" -> CreditValue(lloc[s].read, a)]
        /\ deducted' = IF lloc[s].op = "deduct_tokens"
                       THEN [deducted EXCEPT ![u] = @ + a] ELSE deducted
        /\ refunded' = IF lloc[s].op = "refund_tokens"
                       THEN [refunded EXCEPT ![u] = @ + a] ELSE refunded
        /\ credited' = IF lloc[s].op = "update_tokens"
                       THEN [credited EXCEPT ![u] = @ + a] ELSE credited
    /\ lpc' = [lpc EXCEPT ![s] = "idle"]
    /\ lloc' = [lloc EXCEPT ![s] = NoCall]
    /\ UNCHANGED <<tasks, queue, redelivered, log, lerr, nops>>
    /\ UNCHANGED hvars
    /\ UNCHANGED wvars
    /\ UNCHANGED xvars

\* the caller of deduct_tokens receives the error; nothing was written
LedgerRaised(s) ==
    /\ lpc[s] = "raised"
    /\ lpc' = [lpc EXCEPT ![s] = "idle"]
    /\ lerr' = [lerr EXCEPT ![s] = NoError]
    /\ lloc' = [lloc EXCEPT ![s] = NoCall]
    /\ UNCHANGED <<tokens, tasks, queue, redelivered, log, nops>>
    /\ UNCHANGED <<deducted, refunded, credited>>
    /\ UNCHANGED hvars
    /\ UNCHANGED wvars
    /\ UNCHANGED xvars

\* return None: the caller gets no user and no error; nothing was written
LedgerNotFound(s) ==
    /\ lpc[s] = "not_found"
    /\ lpc' = [lpc EXCEPT ![s] = "idle"]
    /\ lloc' = [lloc EXCEPT ![s] = NoCall]
    /\ UNCHANGED <<tokens, tasks, queue, redelivered, log, lerr, nops>>
    /\ UNCHANGED <<deducted, refunded, credited>>
    /\ UNCHANGED hvars
    /\ UNCHANGED wvars
    /\ UNCHANGED xvars

AllLedgerIdle == \A s \in Sessions : lpc[s] = "idle"

\* ------------------------------------------------------- admin commands
\* the balances and settings that a user can have when an admin command runs
Balances == {0, 10, 25}
MaxToggles == 12

\* UserRepository.update_model: user.selected_model = model; commit
UpdateModel(u, model) ==
    /\ call = NoFunction
    /\ settings[u].selected_model # model
    /\ settings' = [settings EXCEPT ![u].selected_model = model]
    /\ UNCHANGED <<tokens, tasks, queue, redelivered, log>>
    /\ UNCHANGED <<now, call, subscription, apc, aloc>>
    /\ UNCHANGED yvars
    /\ UNCHANGED hvars
    /\ UNCHANGED wvars
    /\ UNCHANGED lvars

\* UserRepository.update_image_settings: the quality, the size, or both
UpdateImageSettings(u, quality, size) ==
    /\ call = NoFunction
    /\ settings' = [settings EXCEPT ![u].image_quality = quality,
                                    ![u].image_size = size]
    /\ settings' # settings
    /\ UNCHANGED <<tokens, tasks, queue, redelivered, log>>
    /\ UNCHANGED <<now, call, subscription, apc, aloc>>
    /\ UNCHANGED yvars
    /\ UNCHANGED hvars
    /\ UNCHANGED wvars
    /\ UNCHANGED lvars

\* a reset that leaves the balance as it is
ResetTokens_kept(old) == old

\* user.tokens = config.initial_tokens
ResetTokens(old) == initial_tokens

\* /resetuser: the four columns are set to their defaults in one commit; an
\* unknown user gets the answer "not found" and nothing is written
ResetUser(u) ==
    /\ call = NoFunction
    /\ call' = [fn |-> "resetuser", args |-> <<u>>,
                result |-> IF u \in Users THEN <<"reset">> ELSE <<"not found">>]
    /\ IF u \in Users
       THEN /\ tokens' = [tokens EXCEPT ![u] = ResetTokens(@)]
            /\ settings' = [settings EXCEPT ![u] =
                    [selected_model |-> "gpt-image-1.5", image_quality |-> "medium",
                     image_size |-> "1024x1024"]]
       ELSE UNCHANGED <<tokens, settings>>
    /\ UNCHANGED <<tasks, queue, redelivered, log>>
    /\ UNCHANGED <<now, subscription, apc, aloc>>
    /\ UNCHANGED yvars
    /\ UNCHANGED hvars
    /\ UNCHANGED wvars
    /\ UNCHANGED lvars

\* get_subscription_required: the Redis key if it is set, else the config
Required(sub) == IF sub.stored = "none" THEN sub.config ELSE sub.stored = "true"

\* a toggle that writes the value it read
Toggled_same(current) == current

\* new_value = not current
Toggled(current) == ~current

\* /togglesub, current = await get_subscription_required(); call counts the
\* toggles made since the value that it records
ToggleGet ==
    /\ apc = "idle"
    /\ call.fn \in {"none", "togglesub"}
    /\ call.fn = "togglesub" => call.result[1] < MaxToggles
    /\ aloc' = Required(subscription)
    /\ apc' = "set"
    /\ call' = IF call.fn = "none"
               THEN [fn |-> "togglesub", args |-> <<Required(subscription)>>,
                     result |-> <<0>>]
               ELSE call
    /\ UNCHANGED <<tokens, tasks, queue, redelivered, log>>
    /\ UNCHANGED <<now, settings, subscription>>
    /\ UNCHANGED yvars
    /\ UNCHANGED hvars
    /\ UNCHANGED wvars
    /\ UNCHANGED lvars

\* set_subscription_required(new_value): "true" or "false" is stored
ToggleSet ==
    /\ apc = "set"
    /\ subscription' = [subscription EXCEPT
            !.stored = IF Toggled(aloc) THEN "true" ELSE "false"]
    /\ call' = [call EXCEPT !.result = <<@[1] + 1>>]
    /\ apc' = "idle"
    /\ aloc' = FALSE
    /\ UNCHANGED <<tokens, tasks, queue, redelivered, log>>
    /\ UNCHANGED <<now, settings>>
    /\ UNCHANGED yvars
    /\ UNCHANGED hvars
    /\ UNCHANGED wvars
    /\ UNCHANGED lvars

\* -------------------------------------------------------------- /start
\* the sum of tokens_amount over a set of gifts
RECURSIVE GiftSum(_, _)
GiftSum(rowsOf, S) ==
    IF S = {} THEN 0
    ELSE LET g == CHOOSE x \in S : TRUE IN
        rowsOf[g].tokens_amount + GiftSum(rowsOf, S \ {g})

\* GiftRepository.get_pending_gifts_for_username: the paid gifts of the name
get_pending_gifts_for_username(username) ==
    IF username = "none" THEN {}
    ELSE {g \in GiftIds : gifts[g].recipient_username = username
                           /\ gifts[g].status = "paid"}

\* cmd_start of a user without a row: unless a required subscription is
\* missing, get_or_create inserts the row with config.initial_tokens
StartRegister(username, subscribed) ==
    /\ spc = "idle"
    /\ NewUser \notin DOMAIN tokens
    /\ IF Required(subscription) /\ ~subscribed
       THEN /\ spc' = "done"
            /\ UNCHANGED <<tokens, sloc>>
       ELSE /\ tokens' = [u \in DOMAIN tokens \cup {NewUser} |->
                            IF u = NewUser THEN initial_tokens ELSE tokens[u]]
            /\ sloc' = [NoStart EXCEPT !.username = username, !.user_id = NewUser]
            /\ spc' = "gifts"
    /\ UNCHANGED <<tasks, queue, redelivered, log>>
    /\ UNCHANGED <<now, call, settings, subscription, apc, aloc>>
    /\ UNCHANGED <<gifts, payments, ppc, ploc, fsm, cpc, cloc, rows, threshold, prompts, faults>>
    /\ UNCHANGED hvars
    /\ UNCHANGED wvars
    /\ UNCHANGED lvars

\* user.tokens += total_gift_tokens on the object that update_tokens has
\* just updated and refreshed
StartBalance(balance, total_gift_tokens) == balance + total_gift_tokens

\* the loop over the pending gifts and, if their sum is positive,
\* user_repo.update_tokens(user.id, total_gift_tokens), whose commit also
\* writes the gifts marked claimed
StartClaimGifts ==
    /\ spc = "gifts"
    /\ LET pending == get_pending_gifts_for_username(sloc.username)
           total == GiftSum(gifts, pending)
       IN /\ sloc' = [sloc EXCEPT !.pending_gifts = pending,
                                  !.total_gift_tokens = total]
          /\ IF total > 0
             THEN /\ tokens' = [tokens EXCEPT ![sloc.user_id] = CreditValue(@, total)]
                  /\ gifts' = [g \in GiftIds |->
                        IF g \in pending THEN [gifts[g] EXCEPT !.status = "claimed"]
                        ELSE gifts[g]]
                  /\ spc' = "commit"
             ELSE /\ spc' = "done"
                  /\ UNCHANGED <<tokens, gifts>>
    /\ UNCHANGED <<tasks, queue, redelivered, log>>
    /\ UNCHANGED <<now, call, settings, subscription, apc, aloc>>
    /\ UNCHANGED <<payments, ppc, ploc, fsm, cpc, cloc, rows, threshold, prompts, faults>>
    /\ UNCHANGED hvars
    /\ UNCHANGED wvars
    /\ UNCHANGED lvars

\* user.tokens += total_gift_tokens; await session.commit()
StartCommit ==
    /\ spc = "commit"
    /\ tokens' = [tokens EXCEPT ![sloc.user_id] = StartBalance(@, sloc.total_gift_tokens)]
    /\ spc' = "done"
    /\ UNCHANGED <<tasks, queue, redelivered, log>>
    /\ UNCHANGED <<now, call, settings, subscription, apc, aloc>>
    /\ UNCHANGED <<gifts, sloc, payments, ppc, ploc, fsm, cpc, cloc, rows, threshold, prompts, faults>>
    /\ UNCHANGED hvars
    /\ UNCHANGED wvars
    /\ UNCHANGED lvars

\* ----------------------------------------------------------- dialogue
is_valid_quality(value, model) ==
    IF is_seedream_model(model)
    THEN value \in {"2k", "4k"}
    ELSE value \in {"low", "medium", "high"}

convert_quality_for_model(quality, target_model) ==
    IF is_seedream_model(target_model)
    THEN CASE quality = "low" -> "2k"
           [] quality = "medium" -> "2k"
           [] quality = "high" -> "4k"
           [] OTHER -> "2k"
    ELSE CASE quality = "2k" -> "medium"
           [] quality = "4k" -> "high"
           [] OTHER -> "medium"

ConfirmStates == {"confirm_generation", "confirm_edit"}

\* process_prompt and process_edit_prompt: the settings of the user are
\* read, the quality is converted if the model does not have it, and the
\* request is stored in the FSM data
ProcessPrompt(kind, images_count) ==
    /\ fsm.state = "none"
    /\ prompts < MaxPrompts
    /\ kind = "generate" => images_count = 1
    /\ LET st == settings[DialogUser]
           quality == IF is_valid_quality(st.image_quality, st.selected_model)
                      THEN st.image_quality
                      ELSE convert_quality_for_model(st.image_quality, st.selected_model)
       IN fsm' = [state |-> IF kind = "generate" THEN "confirm_generation"
                            ELSE "confirm_edit",
                  kind |-> kind, image_quality |-> quality,
                  image_size |-> st.image_size, model |-> st.selected_model,
                  images_count |-> images_count, expensive_confirmed |-> FALSE]
    /\ prompts' = prompts + 1
    /\ UNCHANGED <<tokens, queue, settings, cpc, cloc, rows>>
    /\ UNCHANGED <<tasks, redelivered, log>>
    /\ UNCHANGED <<now, call, subscription, apc, aloc>>
    /\ UNCHANGED <<gifts, spc, sloc, payments, ppc, ploc, threshold, faults>>
    /\ UNCHANGED hvars
    /\ UNCHANGED wvars
    /\ UNCHANGED lvars

\* set_generation_quality and set_edit_quality: a quality that the model
\* of the request does not have is refused
SetQuality(value) ==
    /\ fsm.state \in ConfirmStates
    /\ is_valid_quality(value, fsm.model)
    /\ fsm' = [fsm EXCEPT !.image_quality = value, !.expensive_confirmed = FALSE]
    /\ settings' = [settings EXCEPT ![DialogUser].image_quality = value]
    /\ fsm' # fsm \/ settings' # settings
    /\ UNCHANGED <<tokens, queue, cpc, cloc, rows, prompts>>
    /\ UNCHANGED <<tasks, redelivered, log>>
    /\ UNCHANGED <<now, call, subscription, apc, aloc>>
    /\ UNCHANGED <<gifts, spc, sloc, payments, ppc, ploc, threshold, faults>>
    /\ UNCHANGED hvars
    /\ UNCHANGED wvars
    /\ UNCHANGED lvars

\* select_gpt_image_1, select_gpt_image_15, select_seedream_45: the last
\* two convert the stored quality before they store the model
SelectModel(model) ==
    /\ settings[DialogUser].selected_model # model
    /\ LET st == settings[DialogUser] IN
        settings' = [settings EXCEPT ![DialogUser] =
            [st EXCEPT
                !.image_quality =
                    IF model # "gpt-image-1" /\ ~is_valid_quality(st.image_quality, model)
                    THEN convert_quality_for_model(st.image_quality, model)
                    ELSE @,
                !.selected_model = model]]
    /\ UNCHANGED <<tokens, queue, fsm, cpc, cloc, rows, prompts>>
    /\ UNCHANGED <<tasks, redelivered, log>>
    /\ UNCHANGED <<now, call, subscription, apc, aloc>>
    /\ UNCHANGED <<gifts, spc, sloc, payments, ppc, ploc, threshold, faults>>
    /\ UNCHANGED hvars
    /\ UNCHANGED wvars
    /\ UNCHANGED lvars

\* the cost computed by confirm_generation and confirm_edit (with the model
\* of the request) and by their _expensive variants (without a model)
ConfirmCost(data, button) ==
    LET model == IF button = "confirm" THEN data.model ELSE "None" IN
        IF data.kind = "generate"
        THEN estimate_image_tokens(data.image_quality, data.image_size, model)
        ELSE calculate_total_cost(data.image_quality, data.images_count, model)

\* the confirm callback up to its first database call: the FSM data are
\* read and the cost is computed; an expensive request is confirmed twice
ConfirmRead(c, button) ==
    /\ cpc[c] = "idle"
    /\ fsm.state \in ConfirmStates
    /\ button = "expensive_confirm" => fsm.expensive_confirmed
    /\ LET cost == ConfirmCost(fsm, button) IN
        IF button = "confirm" /\ cost >= threshold /\ ~fsm.expensive_confirmed
        THEN /\ fsm' = [fsm EXCEPT !.expensive_confirmed = TRUE]
             /\ UNCHANGED <<cpc, cloc>>
        ELSE /\ cloc' = [cloc EXCEPT ![c] = [NoConfirm EXCEPT !.data = fsm, !.cost = cost]]
             /\ cpc' = [cpc EXCEPT ![c] = "deduct_read"]
             /\ UNCHANGED fsm
    /\ UNCHANGED <<tokens, queue, settings, rows, prompts>>
    /\ UNCHANGED <<tasks, redelivered, log>>
    /\ UNCHANGED <<now, call, subscription, apc, aloc>>
    /\ UNCHANGED <<gifts, spc, sloc, payments, ppc, ploc, threshold, faults>>
    /\ UNCHANGED hvars
    /\ UNCHANGED wvars
    /\ UNCHANGED lvars

\* deduct_tokens up to its check
ConfirmDeductRead(c) ==
    /\ cpc[c] = "deduct_read"
    /\ cloc' = [cloc EXCEPT ![c].read = tokens[DialogUser]]
    /\ cpc' = [cpc EXCEPT ![c] =
            IF Insufficient(tokens[DialogUser], cloc[c].cost) THEN "insufficient"
            ELSE "deduct_write"]
    /\ UNCHANGED <<tokens, queue, settings, fsm, rows, prompts>>
    /\ UNCHANGED <<tasks, redelivered, log>>
    /\ UNCHANGED <<now, call, subscription, apc, aloc>>
    /\ UNCHANGED <<gifts, spc, sloc, payments, ppc, ploc, threshold, faults>>
    /\ UNCHANGED hvars
    /\ UNCHANGED wvars
    /\ UNCHANGED lvars

\* except InsufficientBalanceError: the error is shown, state.clear()
ConfirmInsufficient(c) ==
    /\ cpc[c] = "insufficient"
    /\ fsm' = NoDialogue
    /\ cpc' = [cpc EXCEPT ![c] = "idle"]
    /\ cloc' = [cloc EXCEPT ![c] = NoConfirm]
    /\ UNCHANGED <<tokens, queue, settings, rows, prompts>>
    /\ UNCHANGED <<tasks, redelivered, log>>
    /\ UNCHANGED <<now, call, subscription, apc, aloc>>
    /\ UNCHANGED <<gifts, spc, sloc, payments, ppc, ploc, threshold, faults>>
    /\ UNCHANGED hvars
    /\ UNCHANGED wvars
    /\ UNCHANGED lvars

\* the model stored with a generation task: user.selected_model as the
\* refresh at the end of deduct_tokens loaded it (the later query returns
\* the same object); an edit task stores the model of the request
StoredModel(data) ==
    IF data.kind = "generate" THEN settings[DialogUser].selected_model
    ELSE data.model

\* deduct_tokens: user.tokens -= amount; commit; refresh
ConfirmDeductWrite(c) ==
    /\ cpc[c] = "deduct_write"
    /\ tokens' = [tokens EXCEPT ![DialogUser] = DeductValue(cloc[c].read, cloc[c].cost)]
    /\ cloc' = [cloc EXCEPT ![c].model = StoredModel(cloc[c].data)]
    /\ cpc' = [cpc EXCEPT ![c] = "create"]
    /\ UNCHANGED <<queue, settings, fsm, rows, prompts>>
    /\ UNCHANGED <<tasks, redelivered, log>>
    /\ UNCHANGED <<now, call, subscription, apc, aloc>>
    /\ UNCHANGED <<gifts, spc, sloc, payments, ppc, ploc, threshold, faults>>
    /\ UNCHANGED hvars
    /\ UNCHANGED wvars
    /\ UNCHANGED lvars

\* task_repo.create(...)
ConfirmCreate(c) ==
    /\ cpc[c] = "create"
    /\ rows' = Append(rows,
            [user_id |-> DialogUser, tokens_spent |-> cloc[c].cost,
             model |-> cloc[c].model,
             image_quality |-> cloc[c].data.image_quality,
             image_size |-> cloc[c].data.image_size,
             images_count |-> cloc[c].data.images_count])
    /\ cloc' = [cloc EXCEPT ![c].task = Len(rows) + 1]
    /\ cpc' = [cpc EXCEPT ![c] = "clear"]
    /\ UNCHANGED <<tokens, queue, settings, fsm, prompts>>
    /\ UNCHANGED <<tasks, redelivered, log>>
    /\ UNCHANGED <<now, call, subscription, apc, aloc>>
    /\ UNCHANGED <<gifts, spc, sloc, payments, ppc, ploc, threshold, faults>>
    /\ UNCHANGED hvars
    /\ UNCHANGED wvars
    /\ UNCHANGED lvars

\* task_repo.create raises: the exception leaves the handler, whose only
\* except clause is for InsufficientBalanceError
ConfirmCreateFault(c) ==
    /\ cpc[c] = "create"
    /\ faults < MaxFaults
    /\ faults' = faults + 1
    /\ cpc' = [cpc EXCEPT ![c] = "idle"]
    /\ cloc' = [cloc EXCEPT ![c] = NoConfirm]
    /\ UNCHANGED <<tokens, queue, settings, fsm, rows, prompts>>
    /\ UNCHANGED <<tasks, redelivered, log>>
    /\ UNCHANGED <<now, call, subscription, apc, aloc>>
    /\ UNCHANGED <<gifts, spc, sloc, payments, ppc, ploc, threshold>>
    /\ UNCHANGED hvars
    /\ UNCHANGED wvars
    /\ UNCHANGED lvars

\* state.clear(), then enqueue_generation_task(task.id), whose failure is
\* logged
ConfirmFinish(c, ok) ==
    /\ cpc[c] = "clear"
    /\ fsm' = NoDialogue
    /\ queue' = IF ok
                THEN queue \cup {[task |-> cloc[c].task, retries_left |-> RetryMax,
                                  copy |-> 0, due |-> now]}
                ELSE queue
    /\ cpc' = [cpc EXCEPT ![c] = "idle"]
    /\ cloc' = [cloc EXCEPT ![c] = NoConfirm]
    /\ UNCHANGED <<tokens, settings, rows, prompts>>
    /\ UNCHANGED <<tasks, redelivered, log>>
    /\ UNCHANGED <<now, call, subscription, apc, aloc>>
    /\ UNCHANGED <<gifts, spc, sloc, payments, ppc, ploc, threshold, faults>>
    /\ UNCHANGED hvars
    /\ UNCHANGED wvars
    /\ UNCHANGED lvars

\* ----------------------------------------------------------- payments
\* YooKassa completes the payment
YooKassaSucceeds ==
    /\ payments.remote = "pending"
    /\ payments' = [payments EXCEPT !.remote = "succeeded"]
    /\ UNCHANGED <<tokens, ppc, ploc>>
    /\ UNCHANGED <<tasks, queue, redelivered, log>>
    /\ UNCHANGED <<now, call, settings, subscription, apc, aloc>>
    /\ UNCHANGED <<gifts, spc, sloc, fsm, cpc, cloc, rows, threshold, prompts, faults>>
    /\ UNCHANGED hvars
    /\ UNCHANGED wvars
    /\ UNCHANGED lvars

\* yookassa_webhook for the event payment.succeeded: get_by_yookassa_id,
\* old_status = payment.status, payment.status = status in the session
WebhookLoad(p) ==
    /\ ppc[p] = "idle"
    /\ payments.remote = "succeeded"
    /\ payments.deliveries < MaxDeliveries
    /\ payments' = [payments EXCEPT !.deliveries = @ + 1]
    /\ ploc' = [ploc EXCEPT ![p] = [kind |-> "webhook", old_status |-> payments.status,
                                     status |-> "succeeded", read |-> 0]]
    /\ ppc' = [ppc EXCEPT ![p] =
            IF payments.status # "succeeded" THEN "user" ELSE "commit"]
    /\ UNCHANGED tokens
    /\ UNCHANGED <<tasks, queue, redelivered, log>>
    /\ UNCHANGED <<now, call, settings, subscription, apc, aloc>>
    /\ UNCHANGED <<gifts, spc, sloc, fsm, cpc, cloc, rows, threshold, prompts, faults>>
    /\ UNCHANGED hvars
    /\ UNCHANGED wvars
    /\ UNCHANGED lvars

\* yookassa_webhook: user = await user_repo.get_by_id(payment.user_id); the
\* session keeps the balance that this query returns
WebhookLoadUser(p) ==
    /\ ppc[p] = "user"
    /\ ploc' = [ploc EXCEPT ![p].read = tokens[payments.user_id]]
    /\ ppc' = [ppc EXCEPT ![p] = "credit"]
    /\ UNCHANGED <<tokens, payments>>
    /\ UNCHANGED <<tasks, queue, redelivered, log>>
    /\ UNCHANGED <<now, call, settings, subscription, apc, aloc>>
    /\ UNCHANGED <<gifts, spc, sloc, fsm, cpc, cloc, rows, threshold, prompts, faults>>
    /\ UNCHANGED hvars
    /\ UNCHANGED wvars
    /\ UNCHANGED lvars

\* check_payment_status: the user row is read first
CheckStart(p) ==
    /\ ppc[p] = "idle"
    /\ payments.deliveries < MaxDeliveries
    /\ payments' = [payments EXCEPT !.deliveries = @ + 1]
    /\ ploc' = [ploc EXCEPT ![p] = [NoPay EXCEPT !.kind = "check",
                                                  !.read = tokens[payments.user_id]]]
    /\ ppc' = [ppc EXCEPT ![p] = "payment"]
    /\ UNCHANGED tokens
    /\ UNCHANGED <<tasks, queue, redelivered, log>>
    /\ UNCHANGED <<now, call, settings, subscription, apc, aloc>>
    /\ UNCHANGED <<gifts, spc, sloc, fsm, cpc, cloc, rows, threshold, prompts, faults>>
    /\ UNCHANGED hvars
    /\ UNCHANGED wvars
    /\ UNCHANGED lvars

\* check_payment_status: get_latest_pending, PaymentService.get_payment,
\* old_status = payment.status, payment.status = yookassa_payment.status
CheckLoad(p) ==
    /\ ppc[p] = "payment"
    /\ IF payments.status # "pending"
       THEN /\ ppc' = [ppc EXCEPT ![p] = "idle"]
            /\ ploc' = [ploc EXCEPT ![p] = NoPay]
       ELSE /\ ploc' = [ploc EXCEPT ![p].old_status = payments.status,
                                    ![p].status = payments.remote]
            /\ ppc' = [ppc EXCEPT ![p] =
                    IF payments.remote = "succeeded" THEN "credit" ELSE "commit"]
    /\ UNCHANGED <<tokens, payments>>
    /\ UNCHANGED <<tasks, queue, redelivered, log>>
    /\ UNCHANGED <<now, call, settings, subscription, apc, aloc>>
    /\ UNCHANGED <<gifts, spc, sloc, fsm, cpc, cloc, rows, threshold, prompts, faults>>
    /\ UNCHANGED hvars
    /\ UNCHANGED wvars
    /\ UNCHANGED lvars

\* if old_status != "succeeded": the test is made on the value read at load
Credited(p) == ploc[p].old_status # "succeeded"

\* update_tokens(user.id, payment.tokens_amount): the commit writes the
\* balance and the status assigned to the payment
PaymentCredit(p) ==
    /\ ppc[p] = "credit"
    /\ IF Credited(p)
       THEN tokens' = [tokens EXCEPT ![payments.user_id] =
                        CreditValue(ploc[p].read, payments.tokens_amount)]
       ELSE UNCHANGED tokens
    /\ payments' = [payments EXCEPT !.status = ploc[p].status]
    /\ ppc' = [ppc EXCEPT ![p] = "idle"]
    /\ ploc' = [ploc EXCEPT ![p] = NoPay]
    /\ UNCHANGED <<tasks, queue, redelivered, log>>
    /\ UNCHANGED <<now, call, settings, subscription, apc, aloc>>
    /\ UNCHANGED <<gifts, spc, sloc, fsm, cpc, cloc, rows, threshold, prompts, faults>>
    /\ UNCHANGED hvars
    /\ UNCHANGED wvars
    /\ UNCHANGED lvars

\* session.commit() without a credit: the status is written if the handler
\* changed it
PaymentCommit(p) ==
    /\ ppc[p] = "commit"
    /\ payments' = [payments EXCEPT !.status =
            IF ploc[p].status # ploc[p].old_status THEN ploc[p].status ELSE @]
    /\ ppc' = [ppc EXCEPT ![p] = "idle"]
    /\ ploc' = [ploc EXCEPT ![p] = NoPay]
    /\ UNCHANGED tokens
    /\ UNCHANGED <<tasks, queue, redelivered, log>>
    /\ UNCHANGED <<now, call, settings, subscription, apc, aloc>>
    /\ UNCHANGED <<gifts, spc, sloc, fsm, cpc, cloc, rows, threshold, prompts, faults>>
    /\ UNCHANGED hvars
    /\ UNCHANGED wvars
    /\ UNCHANGED lvars

\* ---------------------------------------------------------- pricing
\* one call of estimate_image_tokens, calculate_extra_images_cost and
\* calculate_total_cost on the same arguments
PriceCall(quality, size, model, images_count) ==
    /\ call = NoFunction
    /\ call' = [fn |-> "price",
                args |-> [quality |-> quality, size |-> size, model |-> model,
                          images_count |-> images_count],
                result |-> [estimate |-> estimate_image_tokens(quality, size, model),
                            extra |-> calculate_extra_images_cost(images_count),
                            total |-> calculate_total_cost(quality, images_count, model)]]
    /\ UNCHANGED <<tokens, tasks, queue, redelivered, log>>
    /\ UNCHANGED <<now, settings, subscription, apc, aloc>>
    /\ UNCHANGED yvars
    /\ UNCHANGED hvars
    /\ UNCHANGED wvars
    /\ UNCHANGED lvars

\* ------------------------------------------------------- resolutions
Digits == <<"0", "1", "2", "3", "4", "5", "6", "7", "8", "9">>

\* the decimal digits of a natural number, as an f-string formats it
RECURSIVE Str(_)
Str(n) == IF n < 10 THEN <<Digits[n + 1]>> ELSE Str(n \div 10) \o <<Digits[(n % 10) + 1]>>

\* int(base * 1.5)
Int15(base) == (base * 15) \div 10

\* the aspect ratios applied to a base of 4096 at quality 4k as well
get_seedream_size_uncapped(quality, size) ==
    LET base == IF quality = "4k" THEN 4096 ELSE 2048 IN
        IF size = "1024x1536" THEN Str(base) \o <<"x">> \o Str(Int15(base))
        ELSE IF size = "1536x1024" THEN Str(Int15(base)) \o <<"x">> \o Str(base)
        ELSE Str(base) \o <<"x">> \o Str(base)

\* SeeDreamImageProvider._get_seedream_size: the size sent to the provider
get_seedream_size(quality, size) ==
    IF quality = "4k"
    THEN <<"4", "0", "9", "6", "x", "4", "0", "9", "6">>
    ELSE LET base == 2048 IN
        IF size = "1024x1536" THEN Str(base) \o <<"x">> \o Str(Int15(base))
        ELSE IF size = "1536x1024" THEN Str(Int15(base)) \o <<"x">> \o Str(base)
        ELSE Str(base) \o <<"x">> \o Str(base)

\* the characters of the three size settings
SizeText(size) ==
    CASE size = "1024x1024" -> <<"1", "0", "2", "4", "x", "1", "0", "2", "4">>
      [] size = "1024x1536" -> <<"1", "0", "2", "4", "x", "1", "5", "3", "6">>
      [] size = "1536x1024" -> <<"1", "5", "3", "6", "x", "1", "0", "2", "4">>

\* get_actual_resolution: the resolution shown in the caption of the result
get_actual_resolution(model, quality, size) ==
    IF is_seedream_model(model)
    THEN IF quality = "4k"
         THEN <<"4", "0", "9", "6", "x", "4", "0", "9", "6">>
         ELSE IF size = "1024x1536"
              THEN <<"2", "0", "4", "8", "x", "3", "0", "7", "2">>
              ELSE IF size = "1536x1024"
                   THEN <<"3", "0", "7", "2", "x", "2", "0", "4", "8">>
                   ELSE <<"2", "0", "4", "8", "x", "2", "0", "4", "8">>
    ELSE SizeText(size)

\* a task of the given model, quality and size: the size that the SeeDream
\* provider requests and the resolution that the caption reports
ResolutionCall(model, quality, size) ==
    /\ call = NoFunction
    /\ call' = [fn |-> "resolution",
                args |-> [model |-> model, quality |-> quality, size |-> size],
                result |-> [requested |-> get_seedream_size(quality, size),
                            displayed |-> get_actual_resolution(model, quality, size)]]
    /\ UNCHANGED <<tokens, tasks, queue, redelivered, log>>
    /\ UNCHANGED <<now, settings, subscription, apc, aloc>>
    /\ UNCHANGED yvars
    /\ UNCHANGED hvars
    /\ UNCHANGED wvars
    /\ UNCHANGED lvars

\* ------------------------------------------- failure classification
MaxFragments == 3

\* Error texts are sequences of characters, put together from fragments
Fragments ==
    {<<"m", "o", "d", "e">>, <<"r", "a", "t", "i", "o", "n">>,
     <<"S", "A", "F", "E", "T", "Y">>, <<"C", "o", "n", "t", "e", "n", "t">>,
     <<" ">>, <<"p", "o", "l", "i", "c", "y">>,
     <<"t", "i", "m", "e", "o", "u", "t">>, <<"s">>}

UpperCase == <<"A", "B", "C", "D", "E", "F", "G", "H", "I", "J", "K", "L", "M",
               "N", "O", "P", "Q", "R", "S", "T", "U", "V", "W", "X", "Y", "Z">>

LowerCase == <<"a", "b", "c", "d", "e", "f", "g", "h", "i", "j", "k", "l", "m",
               "n", "o", "p", "q", "r", "s", "t", "u", "v", "w", "x", "y", "z">>

\* str.lower()
Lower(text) ==
    [i \in 1..Len(text) |->
        IF \E k \in 1..Len(UpperCase) : UpperCase[k] = text[i]
        THEN LowerCase[CHOOSE k \in 1..Len(UpperCase) : UpperCase[k] = text[i]]
        ELSE text[i]]

\* needle in text
Contains(text, needle) ==
    \E i \in 1..(Len(text) - Len(needle) + 1) :
        SubSeq(text, i, i + Len(needle) - 1) = needle

RECURSIVE Join(_)
Join(fragments) ==
    IF fragments = <<>> THEN <<>> ELSE Head(fragments) \o Join(Tail(fragments))

\* result.error of a failed GenerationResult: None, or a text
ErrorTexts ==
    {[present |-> FALSE, text |-> <<>>]} \cup
    {[present |-> TRUE, text |-> Join(f)] :
        f \in UNION {[1..n -> Fragments] : n \in 0..MaxFragments}}

\* "moderation", "safety", "content policy"
ModerationMarks ==
    {<<"m", "o", "d", "e", "r", "a", "t", "i", "o", "n">>,
     <<"s", "a", "f", "e", "t", "y">>,
     <<"c", "o", "n", "t", "e", "n", "t", " ", "p", "o", "l", "i", "c", "y">>}

\* "Unknown error"
UnknownError ==
    <<"U", "n", "k", "n", "o", "w", "n", " ", "e", "r", "r", "o", "r">>

\* error_msg = result.error or "Unknown error"
ErrorMsg(error) ==
    IF error.present /\ error.text # <<>> THEN error.text ELSE UnknownError

\* the marks looked for in the text as it is
Classify_case_sensitive(error) ==
    IF \E m \in ModerationMarks : Contains(ErrorMsg(error), m)
    THEN "Moderation" ELSE "Retryable"

\* raise ModerationError if the lower-cased text contains one of the marks,
\* GenerationError otherwise
Classify(error) ==
    IF \E m \in ModerationMarks : Contains(Lower(ErrorMsg(error)), m)
    THEN "Moderation" ELSE "Retryable"

ClassifyFailure(error) ==
    /\ call = NoFunction
    /\ call' = [fn |-> "classify", args |-> <<error>>, result |-> <<Classify(error)>>]
    /\ UNCHANGED <<tokens, tasks, queue, redelivered, log>>
    /\ UNCHANGED <<now, settings, subscription, apc, aloc>>
    /\ UNCHANGED yvars
    /\ UNCHANGED hvars
    /\ UNCHANGED wvars
    /\ UNCHANGED lvars

\* ------------------------------------------------ failure notifications
\* the failure message with the error text added
FailureMessage_with_error(tokens_spent, error_msg) ==
    [template |-> "generation_failed_tokens_refunded", tokens_spent |-> tokens_spent,
     detail |-> error_msg]

\* _send_failure_notification: the text sent to the user
FailureMessage(tokens_spent, error_msg) ==
    [template |-> "generation_failed_tokens_refunded", tokens_spent |-> tokens_spent]

\* _send_moderation_notification: the text sent to the user
ModerationMessage(tokens_spent) ==
    [template |-> "request_rejected_tokens_refunded", tokens_spent |-> tokens_spent]

\* _notify_admins_about_error: the text sent to the admin chats
AdminMessage(tokens_spent, error_msg) ==
    [template |-> "admin_generation_error", tokens_spent |-> tokens_spent,
     error |-> error_msg]

\* the messages of the two handlers that end a task in failed: one to the
\* user, one to the admins
FailureNotifications(kind, tokens_spent, error) ==
    [user |-> IF kind = "moderation"
              THEN ModerationMessage(tokens_spent)
              ELSE FailureMessage(tokens_spent, ErrorMsg(error)),
     admin |-> AdminMessage(tokens_spent, ErrorMsg(error))]

NotifyFailure(kind, tokens_spent, error) ==
    /\ call = NoFunction
    /\ call' = [fn |-> "notify", args |-> <<kind, tokens_spent, error>>,
                result |-> <<FailureNotifications(kind, tokens_spent, error)>>]
    /\ UNCHANGED <<tokens, tasks, queue, redelivered, log>>
    /\ UNCHANGED <<now, settings, subscription, apc, aloc>>
    /\ UNCHANGED yvars
    /\ UNCHANGED hvars
    /\ UNCHANGED wvars
    /\ UNCHANGED lvars

\* --------------------------------------------------------- specifications
Submit ==
    \/ \E h \in Handlers, u \in Users, q \in Requested : SubmitDeductRead(h, u, q)
    \/ \E h \in Handlers : SubmitRejected(h)
    \/ \E h \in Handlers : SubmitDeductWrite(h)
    \/ \E h \in Handlers : SubmitCreate(h)
    \/ \E h \in Handlers, ok \in BOOLEAN : SubmitEnqueue(h, ok)

\* the steps of an execution of process_generation_task
Run ==
    \/ \E w \in Workers : SetProcessing(w)
    \/ \E w \in Workers : Refresh(w)
    \/ \E w \in Workers, o \in Outcomes : ProviderCall(w, o)
    \/ \E w \in Workers, sent \in BOOLEAN : SendResult(w, sent)
    \/ \E w \in Workers : MarkDone(w)
    \/ \E w \in Workers : MarkModerationFailed(w)
    \/ \E w \in Workers : HandleError(w)
    \/ \E w \in Workers : RefundRead(w)
    \/ \E w \in Workers : RefundWrite(w)
    \/ \E w \in Workers : Notify(w)
    \/ \E w \in Workers : ReturnTrue(w)
    \/ \E w \in Workers : Raise(w)

Work ==
    \/ \E w \in Workers, j \in queue : Consume(w, j)
    \/ Run

\* The pipeline with a broker that may deliver a job twice
Next ==
    \/ Submit
    \/ Work
    \/ \E w \in Workers : Redeliver(w)

Spec == Init /\ [][Next]_vars

\* The pipeline with a broker that delivers every job once
OnceNext ==
    \/ Submit
    \/ Work

OnceSpec == Init /\ [][OnceNext]_vars

\* The pipeline, every job delivered once, with a database that may fail
\* while an except block runs
FaultNext ==
    \/ Submit
    \/ Work
    \/ \E w \in Workers : HandlerFault(w)

FaultSpec == Init /\ [][FaultNext]_vars

\* The last two pipelines with a handler that finishes what it started
\* and with a broker and workers that do not stop while a job is waiting or
\* an execution is under way; the faults of the database stay arbitrary.
FairOnceSpec == OnceSpec /\ WF_vars(Submit) /\ WF_vars(Work)

FairFaultSpec == FaultSpec /\ WF_vars(Submit) /\ WF_vars(Work)

\* Time passes, in steps of the shortest retry interval
Tick ==
    /\ now < MaxTime
    /\ now' = now + RetryIntervals[1]
    /\ UNCHANGED <<tokens, tasks, queue, redelivered, log>>
    /\ UNCHANGED <<call, settings, subscription, apc, aloc>>
    /\ UNCHANGED yvars
    /\ UNCHANGED hvars
    /\ UNCHANGED wvars
    /\ UNCHANGED lvars

\* The pipeline, every job delivered once, with the clock: RQ hands a
\* scheduled job to a worker only when its time has come
TimedNext ==
    \/ Submit
    \/ \E w \in Workers, j \in queue : j.due <= now /\ Consume(w, j)
    \/ Run
    \/ Tick

TimedSpec == Init /\ [][TimedNext]_vars

\* /resetuser on users with any balance and any settings
ResetInit ==
    /\ BaseInit
    /\ NoExtras
    /\ tokens \in [Users -> Balances]
    /\ settings = [u \in Users |-> DefaultSettings]
    /\ subscription = [config |-> FALSE, stored |-> "none"]

ResetNext ==
    \/ \E u \in Users, m \in Models \ {"None"} : UpdateModel(u, m)
    \/ \E u \in Users, q \in Qualities \cup SeedreamQualities, z \in Sizes :
            UpdateImageSettings(u, q, z)
    \/ \E u \in UserIds : ResetUser(u)

ResetSpec == ResetInit /\ [][ResetNext]_vars

\* /togglesub, one toggle after the other, from any configured default and
\* any stored value
ToggleInit ==
    /\ BaseInit
    /\ NoExtras
    /\ tokens = [u \in Users |-> initial_tokens]
    /\ settings = [u \in Users |-> DefaultSettings]
    /\ subscription \in [config : BOOLEAN, stored : {"none", "true", "false"}]

ToggleNext ==
    \/ ToggleGet
    \/ ToggleSet

ToggleSpec == ToggleInit /\ [][ToggleNext]_vars

\* /start of a new user, with any gifts in the table and any stored
\* subscription requirement
GiftInit ==
    /\ BaseInit
    /\ tokens = [u \in Users |-> initial_tokens]
    /\ settings = [u \in Users |-> DefaultSettings]
    /\ subscription \in [config : {FALSE}, stored : {"none", "true"}]
    /\ gifts \in [GiftIds -> [status : {"pending", "paid", "claimed"},
                              tokens_amount : Amounts,
                              recipient_username : {"new", "other"}]]
    /\ payments = NoPayment
    /\ fsm = NoDialogue
    /\ threshold = 20

GiftNext ==
    \/ \E name \in {"new", "none"}, subscribed \in BOOLEAN : StartRegister(name, subscribed)
    \/ StartClaimGifts
    \/ StartCommit

GiftSpec == GiftInit /\ [][GiftNext]_vars

\* The dialogue of one user from the prompt to the creation of the task,
\* with model selections in between and two deliveries of a callback
DialogInit ==
    /\ BaseInit
    /\ tokens = [u \in Users |-> PaidBalance]
    /\ settings = [u \in Users |-> DefaultSettings]
    /\ subscription = [config |-> FALSE, stored |-> "none"]
    /\ gifts = [g \in GiftIds |-> NoGift]
    /\ payments = NoPayment
    /\ fsm = NoDialogue
    /\ threshold \in Thresholds

Dialog ==
    \/ \E n \in {1, 4} : ProcessPrompt("edit", n)
    \/ ProcessPrompt("generate", 1)
    \/ \E q \in Qualities \cup SeedreamQualities : SetQuality(q)
    \/ \E m \in OfferedModels : SelectModel(m)
    \/ \E c \in Callbacks, b \in {"confirm", "expensive_confirm"} : ConfirmRead(c, b)
    \/ \E c \in Callbacks : ConfirmDeductRead(c)
    \/ \E c \in Callbacks : ConfirmInsufficient(c)
    \/ \E c \in Callbacks : ConfirmDeductWrite(c)
    \/ \E c \in Callbacks : ConfirmCreate(c)
    \/ \E c \in Callbacks, ok \in BOOLEAN : ConfirmFinish(c, ok)

DialogSpec == DialogInit /\ [][Dialog]_vars

\* The same dialogue with a database that may fail in task_repo.create
DialogFaultNext ==
    \/ Dialog
    \/ \E c \in Callbacks : ConfirmCreateFault(c)

DialogFaultSpec == DialogInit /\ [][DialogFaultNext]_vars

\* One purchase: webhook deliveries and manual checks, interleaved
PaymentInit ==
    /\ BaseInit
    /\ tokens = [u \in Users |-> initial_tokens]
    /\ settings = [u \in Users |-> DefaultSettings]
    /\ subscription = [config |-> FALSE, stored |-> "none"]
    /\ gifts = [g \in GiftIds |-> NoGift]
    /\ payments \in [user_id : Users, tokens_amount : Amounts, status : {"pending"},
                      remote : {"pending"}, deliveries : {0}]
    /\ fsm = NoDialogue
    /\ threshold = 20

PaymentNext ==
    \/ YooKassaSucceeds
    \/ \E p \in Payers : WebhookLoad(p)
    \/ \E p \in Payers : WebhookLoadUser(p)
    \/ \E p \in Payers : CheckStart(p)
    \/ \E p \in Payers : CheckLoad(p)
    \/ \E p \in Payers : PaymentCredit(p)
    \/ \E p \in Payers : PaymentCommit(p)

PaymentSpec == PaymentInit /\ [][PaymentNext]_vars

\* The pricing functions on every quality, size, model and image count
PriceNext ==
    \/ \E q \in PricedQualities, z \in Sizes, m \in Models, n \in 1..MaxImages :
            PriceCall(q, z, m, n)
    \/ \E m \in Models, q \in PricedQualities \cup {"None"}, z \in Sizes :
            ResolutionCall(m, q, z)

PriceSpec == Init /\ [][PriceNext]_vars

\* The classification of provider failures and the messages of the failure
\* handlers, on every error text and every price
MessageNext ==
    \/ call = NoFunction /\ \E e \in ErrorTexts : ClassifyFailure(e)
    \/ call = NoFunction /\
            \E k \in {"moderation", "failure"}, q \in Qualities, e \in ErrorTexts :
                NotifyFailure(k, GPT_TOKEN_COSTS[q], e)

MessageSpec == Init /\ [][MessageNext]_vars

\* Ledger operations of concurrent sessions
LedgerNext ==
    \/ \E s \in Sessions, op \in LedgerOps, u \in UserIds, a \in Amounts :
            LedgerRead(s, op, u, a)
    \/ \E s \in Sessions : LedgerWrite(s)
    \/ \E s \in Sessions : LedgerRaised(s)
    \/ \E s \in Sessions : LedgerNotFound(s)

LedgerSpec == Init /\ [][LedgerNext]_vars

\* Ledger operations one after the other
LedgerSeqNext ==
    \/ \E s \in Sessions, op \in LedgerOps, u \in UserIds, a \in Amounts :
            AllLedgerIdle /\ LedgerRead(s, op, u, a)
    \/ \E s \in Sessions : LedgerWrite(s)
    \/ \E s \in Sessions : LedgerRaised(s)
    \/ \E s \in Sessions : LedgerNotFound(s)

LedgerSeqSpec == Init /\ [][LedgerSeqNext]_vars

TypeOK ==
    /\ tokens \in [Users -> Int]
    /\ \A t \in TaskIds : tasks[t].status \in {"none", "pending", "processing", "done", "failed"}

\* ------------------------------------------------------------- properties
WorkingOn(t) == {w \in Workers : wpc[w] # "idle" /\ wjob[w].task = t}

JobsOf(t) == {j \in queue : j.task = t}

\* between "status set to processing" and the next done/pending/failed
Processing(w) ==
    \/ wpc[w] \in {"call", "send", "mark_done", "moderation", "handle"}
    \/ wpc[w] = "refresh" /\ wnext[w] = "call"

LegalTransitions ==
    {<<"none", "pending">>, <<"pending", "processing">>, <<"processing", "done">>,
     <<"processing", "pending">>, <<"processing", "failed">>}

Balance(u) == initial_tokens + refunded[u] + credited[u] - deducted[u]

\* no other task of the owner of t exists and no submission of the owner
\* is under way
SoleRequest(t) ==
    /\ \A t2 \in Created \ {t} : tasks[t2].user_id # tasks[t].user_id
    /\ \A h \in Handlers :
            hpc[h] \in {"deduct_write", "create", "enqueue"}
                => hloc[h].user_id # tasks[t].user_id

\* C1: a worker that loaded a task whose status is not pending discards the
\* job: its next step ends the job and changes no task row, makes no
\* provider call, refund, delivery or notification and leaves the balances.
C1_IdempotentConsumption ==
    [][\A w \in Workers :
        (wpc[w] = "loaded" /\ wseen[w] # "pending" /\ wpc'[w] # wpc[w])
            => /\ wpc'[w] = "idle"
               /\ tasks' = tasks
               /\ log' = log
               /\ tokens' = tokens]_vars

\* C2: a task is refunded at most once, and a failed task that no worker
\* is handling any more has been refunded exactly once.
C2_RefundExactlyOnce ==
    \A t \in TaskIds :
        /\ log[t].refunds <= 1
        /\ (tasks[t].status = "failed" /\ WorkingOn(t) = {}) => log[t].refunds = 1

\* C3: no two workers are at the same time between the processing
\* transition and the following done/pending/failed transition of one task.
C3_AtMostOneProcessing ==
    \A w1, w2 \in Workers :
        (w1 # w2 /\ Processing(w1) /\ Processing(w2)) => Task(w1) # Task(w2)

\* C4: every change of a task's status is pending->processing,
\* processing->done, processing->pending or processing->failed (after the
\* creation in pending); done and failed are never left.
C4_LegalTransitions ==
    [][\A t \in TaskIds :
        tasks'[t].status # tasks[t].status
            => <<tasks[t].status, tasks'[t].status>> \in LegalTransitions]_vars

\* C5: whenever no ledger operation is under way, every balance is the
\* initial balance plus the refunds and credits minus the deductions that
\* succeeded on that account, whatever the interleaving of the sessions.
C5_LedgerAtomicity ==
    AllLedgerIdle => \A u \in Users : tokens[u] = Balance(u)

\* C6: with the operations run one after the other, the balance is always
\* the initial balance plus the refunded (and credited) amounts minus the
\* deducted amounts.
C6_BalanceConservation ==
    \A u \in Users :
        tokens[u] - initial_tokens = refunded[u] + credited[u] - deducted[u]

W6_DeductAndRefundDone ==
    \E u \in Users : AllLedgerIdle /\ deducted[u] > 0 /\ refunded[u] > 0

\* C7: a submission whose cost exceeds the balance read by deduct_tokens
\* fails with InsufficientBalanceError(required = cost, available = balance)
\* and changes neither the balance nor the tasks nor the queue, and the
\* handler returns from there without creating a task or a job; any other
\* submission goes on to the deduction.
C7_InsufficientFunds ==
    [][\A h \in Handlers :
        /\ (hpc[h] = "idle" /\ hpc'[h] # "idle") =>
              LET u == hloc'[h].user_id
                  a == hloc'[h].cost
              IN IF a > tokens[u]
                 THEN /\ hpc'[h] = "insufficient"
                      /\ herr'[h] = [required |-> a, available |-> tokens[u]]
                      /\ tokens' = tokens
                      /\ tasks' = tasks
                      /\ queue' = queue
                 ELSE hpc'[h] = "deduct_write"
        /\ (hpc[h] = "insufficient" /\ hpc'[h] # "insufficient") =>
              /\ hpc'[h] = "idle"
              /\ tokens' = tokens
              /\ tasks' = tasks
              /\ queue' = queue]_vars

W7_Rejected ==
    \E h \in Handlers :
        /\ hpc[h] = "insufficient"
        /\ herr[h].required > herr[h].available
        /\ herr[h].available = tokens[hloc[h].user_id]

\* C8: every balance is a non-negative integer in every state, whatever
\* the interleaving of deduct, refund and credit sessions.
C8_BalanceNonNegative ==
    \A u \in Users : tokens[u] \in Nat

\* two sessions have interleaved on one account: an update was overwritten
W8_Interleaved ==
    \E u \in Users : AllLedgerIdle /\ deducted[u] > 0 /\ tokens[u] # Balance(u)

\* C9: a task never fails transiently more than 3 times; its third
\* transient failure leaves it failed with retry_count 3 after exactly 3
\* provider calls, with no job left and one refund; after a first or second
\* transient failure the task is pending again with its job back on the
\* queue.
C9_RetryCeiling ==
    \A t \in TaskIds :
        /\ log[t].fails <= 3
        /\ log[t].fails = 3 =>
              /\ tasks[t].status = "failed"
              /\ tasks[t].retry_count = 3
              /\ log[t].calls = 3
              /\ JobsOf(t) = {}
              /\ log[t].refunds <= 1
              /\ WorkingOn(t) = {} => log[t].refunds = 1
        /\ (log[t].fails \in {1, 2} /\ log[t].calls = log[t].fails /\ WorkingOn(t) = {}) =>
              /\ tasks[t].status = "pending"
              /\ tasks[t].retry_count = log[t].fails
              /\ JobsOf(t) # {}

W9_FailedAfterThree ==
    \E t \in TaskIds :
        /\ log[t].fails = 3
        /\ tasks[t].status = "failed"
        /\ log[t].refunds = 1
        /\ WorkingOn(t) = {}

\* C10: a task that is done after two transient failures has retry_count 2
\* and was not refunded, and the balance of an owner with no other request
\* is the initial balance minus the task's cost.
C10_SuccessAfterRetries ==
    \A t \in TaskIds :
        (tasks[t].status = "done" /\ log[t].fails = 2) =>
            /\ tasks[t].retry_count = 2
            /\ log[t].refunds = 0
            /\ log[t].calls = 3
            /\ SoleRequest(t) =>
                  tokens[tasks[t].user_id] = initial_tokens - tasks[t].tokens_spent

W10_DoneAfterTwoFailures ==
    \E t \in TaskIds :
        /\ tasks[t].status = "done"
        /\ log[t].fails = 2
        /\ WorkingOn(t) = {}
        /\ tokens[tasks[t].user_id] = initial_tokens - tasks[t].tokens_spent

\* C11: the step that handles a moderation failure sets the task to failed
\* with retry_count as it was before the attempt and puts no job on the
\* queue; the execution goes on to the refund, never to a raise, and a task
\* failed by moderation has no job left. This holds after earlier transient
\* failures too.
C11_ModerationShortCircuit ==
    [][/\ \A w \in Workers :
            (wpc[w] = "moderation" /\ wpc'[w] # "moderation") =>
                /\ tasks'[Task(w)].status = "failed"
                /\ tasks'[Task(w)].retry_count = tasks[Task(w)].retry_count
                /\ queue' = queue
                /\ wnext'[w] = "refund_read"
       /\ \A w \in Workers : wkind'[w] = "moderation" => wpc'[w] # "raise"
       /\ \A t \in TaskIds :
            (tasks'[t].status = "failed" /\ tasks'[t].error_message = "moderation")
                => (JobsOf(t))' = {}]_vars

W11_ModerationAfterTransient ==
    \E t \in TaskIds :
        /\ tasks[t].status = "failed"
        /\ tasks[t].error_message = "moderation"
        /\ log[t].fails = 2
        /\ log[t].calls = 3
        /\ tasks[t].retry_count = 2
        /\ JobsOf(t) = {}
        /\ WorkingOn(t) = {}

\* C12: an execution that is about to raise to RQ found its task neither
\* done nor failed when it loaded it, and leaves the task in status pending.
C12_TerminalNeverRequeued ==
    \A w \in Workers :
        wpc[w] = "raise" =>
            /\ wseen[w] \notin {"done", "failed"}
            /\ tasks[Task(w)].status = "pending"

\* C13: a task that is done has a result_file_id and a delivered result;
\* an attempt whose delivery returned no file id changes no row in that step
\* and is handled as a failure: retry_count is incremented and the task is
\* pending with a raise for RQ, or failed with a refund to come; the provider
\* is called again on every attempt.
C13_DeliveryCoupledToDone ==
    [][/\ \A t \in TaskIds :
            tasks'[t].status = "done" =>
                /\ tasks'[t].result_file_id
                /\ log'[t].sent >= 1
                /\ log'[t].calls = log'[t].fails + 1
       /\ \A w \in Workers :
            (wpc[w] = "send" /\ wpc'[w] # "send"
                    /\ log'[Task(w)].sent = log[Task(w)].sent) =>
                /\ wpc'[w] = "handle"
                /\ tasks' = tasks
       /\ \A w \in Workers :
            (wpc[w] = "handle" /\ wpc'[w] # "handle") =>
                /\ tasks'[Task(w)].retry_count = tasks[Task(w)].retry_count + 1
                /\ \/ tasks'[Task(w)].status = "pending" /\ wnext'[w] = "raise"
                   \/ tasks'[Task(w)].status = "failed" /\ wnext'[w] = "refund_read"]_vars

\* a delivery failed, the task is pending again and the job is about to be
\* retried
W13_UndeliveredRetried ==
    \E w \in Workers :
        /\ wpc[w] = "raise"
        /\ wkind[w] = "delivery"
        /\ tasks[Task(w)].status = "pending"
        /\ tasks[Task(w)].retry_count = 1
        /\ ~tasks[Task(w)].result_file_id
        /\ log[Task(w)].sent = 0
        /\ log[Task(w)].calls = 1

\* C14: the result of a task is delivered to the user at most once.
C14_NoDuplicateResult ==
    \A t \in TaskIds : log[t].sent <= 1

\* C15: a task in status processing always has a worker running it or a job
\* on the queue, and an execution raises to RQ only with the task set back
\* to pending and its retry_count incremented.
C15_ExceptionsAreRetryable ==
    /\ \A t \in TaskIds :
            tasks[t].status = "processing" => (WorkingOn(t) # {} \/ JobsOf(t) # {})
    /\ \A w \in Workers :
            wpc[w] = "raise" =>
                /\ tasks[Task(w)].status = "pending"
                /\ tasks[Task(w)].retry_count >= 1

C18_RetryCountBounded ==
    [][\A t \in TaskIds :
        /\ tasks'[t].retry_count \in 0..MAX_RETRIES
        /\ (log'[t].fails = log[t].fails + 1
                /\ tasks[t].status # "failed" /\ tasks'[t].status = "failed")
              => tasks'[t].retry_count = MAX_RETRIES]_vars

\* C19: retry_count never decreases; the handling of a transient failure
\* increases it by exactly 1 and every other step leaves it unchanged.
C19_RetryCountMonotone ==
    [][\A t \in TaskIds :
        /\ tasks'[t].retry_count >= tasks[t].retry_count
        /\ log'[t].fails = log[t].fails + 1
              => tasks'[t].retry_count = tasks[t].retry_count + 1
        /\ log'[t].fails = log[t].fails
              => tasks'[t].retry_count = tasks[t].retry_count]_vars

\* C20: a refund_tokens call that finds no row for its user ends with an
\* error for its caller.
C20_MissingAccountRaises ==
    \A s \in Sessions :
        (lpc[s] = "not_found" /\ lloc[s].op = "refund_tokens") => lerr[s] # NoError

\* C21: tokens_spent of a task is the amount deducted at its creation and no
\* later step changes it; a refund adds exactly this amount to the balance
\* that it read.
C21_TokensSpentFixed ==
    [][/\ \A t \in TaskIds :
            tasks[t].status # "none" => tasks'[t].tokens_spent = tasks[t].tokens_spent
       /\ \A h \in Handlers :
            (hpc[h] = "create" /\ hpc'[h] # "create") =>
                tasks'[hloc'[h].task].tokens_spent = hloc[h].cost
       /\ \A w \in Workers :
            (wpc[w] = "refund_write" /\ wpc'[w] # "refund_write") =>
                tokens'[Owner(w)] = wread[w] + tasks[Task(w)].tokens_spent]_vars

W21_RefundedCreationValue ==
    \E t \in TaskIds :
        /\ tasks[t].status = "failed"
        /\ tasks[t].retry_count = 3
        /\ tasks[t].tokens_spent = 5
        /\ log[t].refunds = 1
        /\ SoleRequest(t)
        /\ tokens[tasks[t].user_id] = initial_tokens

\* C22: a provider failure is classified Moderation exactly when its text,
\* in lower case, contains "moderation", "safety" or "content policy"; a
\* missing or empty text is Retryable.
C22_Classification ==
    call.fn = "classify" =>
        LET error == call.args[1]
            class == call.result[1]
        IN /\ class \in {"Moderation", "Retryable"}
           /\ (~error.present \/ error.text = <<>>) => class = "Retryable"
           /\ (error.present /\ error.text # <<>>) =>
                (class = "Moderation" <=>
                    \E m \in ModerationMarks : Contains(Lower(error.text), m))

\* "Content policy", with a capital letter and put together from three
\* fragments, is a moderation failure
W22_MixedCaseMark ==
    /\ call.fn = "classify"
    /\ call.args[1].text =
            <<"C", "o", "n", "t", "e", "n", "t", " ", "p", "o", "l", "i", "c", "y">>
    /\ call.result[1] = "Moderation"

\* C24: the message sent to the user by a failure handler is the generic
\* message or the moderation message, each with the refunded amount and
\* nothing else: it does not depend on the error text.
C24_FixedUserMessages ==
    call.fn = "notify" =>
        LET kind == call.args[1]
            amount == call.args[2]
            user == call.result[1].user
        IN /\ DOMAIN user = {"template", "tokens_spent"}
           /\ user.tokens_spent = amount
           /\ user.template = IF kind = "moderation"
                              THEN "request_rejected_tokens_refunded"
                              ELSE "generation_failed_tokens_refunded"

W24_ErrorTextOnlyToAdmins ==
    /\ call.fn = "notify"
    /\ call.args[1] = "failure"
    /\ call.args[3].text = <<"t", "i", "m", "e", "o", "u", "t">>
    /\ call.result[1].admin.error = <<"t", "i", "m", "e", "o", "u", "t">>
    /\ call.result[1].user.template = "generation_failed_tokens_refunded"

\* C23: the job re-enqueued after the n-th transient failure of its task
\* (n = 1, 2) is due the n-th interval of 10 s, 30 s, 60 s after the raise,
\* no job is re-enqueued for a task with retry_count 3, and a worker takes a
\* job only when it is due.
C23_BackoffOrder ==
    [][\A w \in Workers :
        /\ (wpc[w] = "raise" /\ wpc'[w] = "idle" /\ queue' # queue) =>
              LET n == tasks[Task(w)].retry_count IN
                /\ n \in {1, 2}
                /\ n < MAX_RETRIES
                /\ \A j \in queue' \ queue : j.due = now + RetryIntervals[n]
        /\ (wpc[w] = "raise" /\ wpc'[w] = "idle" /\ queue' = queue) =>
              wjob[w].retries_left = 0
        /\ (wpc[w] = "idle" /\ wpc'[w] = "loaded") => wjob'[w].due <= now]_vars

\* the second retry is taken 30 s after the second failure, which came no
\* earlier than 10 s after the first
W23_SecondRetryWaited ==
    \E w \in Workers :
        /\ wpc[w] = "loaded"
        /\ wjob[w].retries_left = 1
        /\ wjob[w].due = 40
        /\ now = 40
        /\ tasks[Task(w)].retry_count = 2

\* C25: the surcharge for n source images is 0 for 1 <= n <= 3, 1 for
\* 4 <= n <= 6 and 2 for 7 <= n <= 10.
C25_ExtraImagesCost ==
    call.fn = "price" =>
        LET n == call.args.images_count IN
            /\ n \in 1..3 => call.result.extra = 0
            /\ n \in 4..6 => call.result.extra = 1
            /\ n \in 7..10 => call.result.extra = 2

W25_SeventhImage ==
    /\ call.fn = "price"
    /\ call.args.images_count = 7
    /\ call.result.extra = 2

\* C26: called without a model, for every quality low, medium or high,
\* every size and every image count 1..10, estimate_image_tokens gives
\* USER_TOKEN_COSTS[quality], which is 2, 5 or 20 whatever the size, and
\* calculate_total_cost gives this cost plus the surcharge of the image
\* count.
C26_UserTokenCost ==
    (call.fn = "price" /\ call.args.model = "None" /\ call.args.quality \in Qualities) =>
        LET q == call.args.quality
            n == call.args.images_count
        IN /\ call.result.estimate = USER_TOKEN_COSTS[q]
           /\ call.result.estimate =
                (CASE q = "low" -> 2 [] q = "medium" -> 5 [] q = "high" -> 20)
           /\ call.result.total =
                USER_TOKEN_COSTS[q] + (IF n <= 3 THEN 0 ELSE IF n <= 6 THEN 1 ELSE 2)

W26_HighLandscapeSevenImages ==
    /\ call.fn = "price"
    /\ call.args = [quality |-> "high", size |-> "1536x1024", model |-> "None",
                    images_count |-> 7]
    /\ call.result.estimate = 20
    /\ call.result.total = 22

\* C27: for the SeeDream 4.5 model the cost is 5 tokens at quality 2k and
\* 7 tokens at quality 4k.
C27_SeedreamPricing ==
    (call.fn = "price" /\ call.args.model = "seedream-4-5") =>
        /\ call.args.quality = "2k" => call.result.estimate = 5
        /\ call.args.quality = "4k" => call.result.estimate = 7

\* C28: with the operations run one after the other, update_tokens(u, A)
\* leaves the balance at exactly the balance before plus A, and a balance
\* changed by additions only is the initial balance plus their sum.
C28_TokenAddition ==
    [][/\ \A s \in Sessions :
            (lpc[s] = "write" /\ lloc[s].op = "update_tokens" /\ lpc'[s] = "idle") =>
                tokens'[lloc[s].user_id] = tokens[lloc[s].user_id] + lloc[s].amount
       /\ \A u \in Users :
            (deducted'[u] = 0 /\ refunded'[u] = 0) =>
                tokens'[u] = initial_tokens + credited'[u]]_vars

\* two additions, of 5 and of 20
W28_TwoAdditions ==
    \E u \in Users :
        /\ AllLedgerIdle
        /\ credited[u] = 25
        /\ deducted[u] = 0
        /\ refunded[u] = 0
        /\ tokens[u] = initial_tokens + 25

\* C29: after /resetuser on a user, whatever the balance and the settings
\* before, the user has config.initial_tokens tokens, model gpt-image-1.5,
\* quality medium and size 1024x1024.
C29_ResetRestoresDefaults ==
    (call.fn = "resetuser" /\ call.args[1] \in Users) =>
        LET u == call.args[1] IN
            /\ tokens[u] = initial_tokens
            /\ settings[u].selected_model = "gpt-image-1.5"
            /\ settings[u].image_quality = "medium"
            /\ settings[u].image_size = "1024x1024"

\* a user with another balance and other settings is about to be reset
W29_ResetFromOtherValues ==
    \E u \in Users :
        /\ call.fn = "resetuser"
        /\ call.args[1] = u
        /\ tokens[u] = initial_tokens
        /\ settings[u] = DefaultSettings
        /\ \E v \in Users : v # u /\ tokens[v] = 25 /\ settings[v].image_quality = "high"

RECURSIVE HeldIn(_, _)
HeldIn(S, u) ==
    IF S = {} THEN 0
    ELSE LET t == CHOOSE x \in S : TRUE IN
        (IF tasks[t].user_id = u /\ tasks[t].status \in {"pending", "processing", "done"}
         THEN tasks[t].tokens_spent ELSE 0) + HeldIn(S \ {t}, u)

Held(u) == HeldIn(TaskIds, u)

\* no submission handler and no worker is in the middle of a step
Quiescent ==
    /\ \A h \in Handlers : hpc[h] = "idle"
    /\ \A w \in Workers : wpc[w] = "idle"

\* C31: in every quiescent state the balance of each user is the initial
\* balance plus the external credits minus the tokens_spent of the user's
\* tasks that are pending, processing or done.
C31_TokenConservation ==
    Quiescent =>
        \A u \in Users : tokens[u] = initial_tokens + credited[u] - Held(u)

\* the handler has returned, the task is pending and was never started, and
\* no job for it is in the queue or with a worker
Unqueued(t) ==
    /\ tasks[t].status = "pending"
    /\ tasks[t].retry_count = 0
    /\ log[t].calls = 0
    /\ JobsOf(t) = {}
    /\ WorkingOn(t) = {}
    /\ \A h \in Handlers : hloc[h].task # t

\* C32: a task whose enqueue failed is nonetheless picked up by a worker
\* at some later time.
C32_FailedEnqueueRecovered ==
    \A t \in TaskIds :
        Unqueued(t) ~> (tasks[t].status \in {"processing", "done", "failed"})

\* C33: every task that has a job in the queue is done or failed at some
\* later time.
C33_EnqueuedTaskSettles ==
    \A t \in TaskIds :
        (JobsOf(t) # {}) ~> (tasks[t].status \in {"done", "failed"})

\* C37: when /start has registered a new user, the balance of the user is
\* the initial balance plus the sum of the paid gifts found for the
\* username, and each of these gifts is claimed.
C37_GiftsCreditedOnce ==
    (spc = "done" /\ NewUser \in DOMAIN tokens) =>
        /\ tokens[NewUser] = initial_tokens + GiftSum(gifts, sloc.pending_gifts)
        /\ \A g \in sloc.pending_gifts : gifts[g].status = "claimed"

\* C36: the balance of the paying user is never raised by more than the
\* tokens_amount of the payment, and once the payment is recorded as
\* succeeded and no handler is running it is raised by exactly that amount.
C36_PaymentCreditedOnce ==
    LET u == payments.user_id IN
        /\ tokens[u] \in {initial_tokens, initial_tokens + payments.tokens_amount}
        /\ (payments.status = "succeeded" /\ \A p \in Payers : ppc[p] = "idle") =>
                tokens[u] = initial_tokens + payments.tokens_amount

\* the sum of tokens_spent over the first n rows created by the dialogue
RECURSIVE SpentIn(_)
SpentIn(n) == IF n = 0 THEN 0 ELSE rows[n].tokens_spent + SpentIn(n - 1)

ConfirmIdle == \A c \in Callbacks : cpc[c] = "idle"

\* C34: whenever no confirm handler is running, the tokens deducted from
\* the user are covered by task rows: the balance is not lower than the
\* starting balance minus the tokens_spent of the rows that exist.
C34_SubmissionAllOrNothing ==
    ConfirmIdle => PaidBalance - tokens[DialogUser] <= SpentIn(Len(rows))

\* C35: the confirmations of one prepared request create at most one task
\* and deduct its cost at most once.
C35_OneConfirmationOneCharge ==
    /\ Len(rows) <= prompts
    /\ Len(rows) >= prompts => PaidBalance - tokens[DialogUser] <= SpentIn(prompts)

\* C38: the tokens_spent of every created task is calculate_total_cost of
\* the quality, the image count and the model stored with the task.
C38_ChargedPriceOfStored ==
    \A i \in 1..Len(rows) :
        rows[i].tokens_spent =
            calculate_total_cost(rows[i].image_quality, rows[i].images_count,
                                 rows[i].model)

\* C39: the stored quality of the user is one that the stored model has.
C39_StoredSettingsValid ==
    is_valid_quality(settings[DialogUser].image_quality,
                     settings[DialogUser].selected_model)

====
